---- MODULE Spec2Model ----
(***************************************************************************)
(* Holidaze: the entity extraction engine (src/src/extractor.py) and the   *)
(* itinerary groupings (src/src/models.py).                                *)
(*                                                                         *)
(* A message's content is a sequence of tokens (whitespace-separated       *)
(* phrases of a fixed vocabulary).  The regular expressions and substring  *)
(* tests of the source are tabulated per token; everything above the       *)
(* lexical layer (windows, priorities, gates, dedup sets, counter, filter, *)
(* sort, grouping) is computed as the code computes it.                    *)
(* Dates are integers YYYYMMDD; NoDate stands for Python's None.           *)
(***************************************************************************)
EXTENDS Integers, Sequences, FiniteSets, TLC

VARIABLES transcript, data, messages, item_counter, seen, detected, returned,
          itinerary, by_date, by_category

vars == <<transcript, data, messages, item_counter, seen, detected, returned,
          itinerary, by_date, by_category>>

\* ------------------------------------------------------------------ bounds
MaxEvents == 3
Pad == 7
MaxCalls == 2
WindowEvents == 2
MaxGap == 8
MaxImages == 1

\* --------------------------------------------------------------- constants
NoDate == 0
ValueError == -1
DateMax == 99991231
TripYear == 2026
FallbackStart == 20260314
FallbackEnd == 20260328
ConfirmBefore == 3
ConfirmWindow == 8
DateWindow == 5

Instances == {1, 2}

Max(a, b) == IF a >= b THEN a ELSE b
Min(a, b) == IF a <= b THEN a ELSE b

\* ------------------------------------------------------------- vocabulary
U_LipeResort == "https://www.booking.com/hotel/th/lipe-resort.html?checkin=2026-03-20&checkout=2026-03-22"
U_LipeBeach == "https://booking.com/hotel/th/lipe-beach.html?checkin=2026-03-14&checkout=2026-03-16"
U_LantaInn == "https://www.booking.com/hotel/th/lanta-inn.html?checkin=tbc&checkout=2026-03-18"
U_SeaView == "https://www.booking.com/hotel/th/sea-view.html?checkin=9999-12-31"
U_Search == "https://www.booking.com/searchresults.html?checkin=2026-03-16"
P_LipeResort == "Check out Lipe Resort on Booking.com"
P_LipeResortUpper == "check out  LIPE RESORT on booking.com"
P_LantaInn == "Check out Lanta Inn on Booking.com"
P_Riverside == "Check out Riverside Bangkok on Booking.com"
P_Sukhumvit == "Check out Sukhumvit Suites on Booking.com"

\* ---------------------------------------------------------- lexical layer
\* BOOKING_URL_PATTERN: the tokens the pattern matches (a URL holds no space).
BOOKING_URL_PATTERN(tok) ==
    tok \in {U_LipeResort, U_LipeBeach, U_LantaInn, U_SeaView, U_Search}

\* checkout_pattern: group(1) of "Check out ([^!]+?) on Booking\.com",
\* case-insensitive; "" when the token does not match.
checkout_pattern(tok) ==
    CASE tok = P_LipeResort -> "Lipe Resort"
      [] tok = P_LipeResortUpper -> " LIPE RESORT"
      [] tok = P_LantaInn -> "Lanta Inn"
      [] tok = P_Riverside -> "Riverside Bangkok"
      [] tok = P_Sukhumvit -> "Sukhumvit Suites"
      [] OTHER -> ""

\* str.strip()
strip(s) ==
    CASE s = " LIPE RESORT" -> "LIPE RESORT"
      [] OTHER -> s

\* str.lower()
lower(s) ==
    CASE s \in {"Lipe Resort", "LIPE RESORT", "lipe resort"} -> "lipe resort"
      [] s = " LIPE RESORT" -> " lipe resort"
      [] s \in {"Lipe Beach", "lipe beach"} -> "lipe beach"
      [] s \in {"Lanta Inn", "lanta inn"} -> "lanta inn"
      [] s \in {"Sea View", "sea view"} -> "sea view"
      [] s \in {"Riverside Bangkok"} -> "riverside bangkok"
      [] s \in {"Sukhumvit Suites"} -> "sukhumvit suites"
      [] OTHER -> s

\* re.search(r"/hotel/\w+/([^/.]+)", urlparse(url).path).group(1)
url_path_segment(url) ==
    CASE url = U_LipeResort -> "lipe-resort"
      [] url = U_LipeBeach -> "lipe-beach"
      [] url = U_LantaInn -> "lanta-inn"
      [] url = U_SeaView -> "sea-view"
      [] OTHER -> ""

\* name.replace("-", " ").title()
replace_title(seg) ==
    CASE seg = "lipe-resort" -> "Lipe Resort"
      [] seg = "lipe-beach" -> "Lipe Beach"
      [] seg = "lanta-inn" -> "Lanta Inn"
      [] seg = "sea-view" -> "Sea View"
      [] OTHER -> seg

\* parse_qs(urlparse(url).query): the first value of a parameter, "" if absent
parse_qs(url, param) ==
    CASE url = U_LipeResort /\ param = "checkin" -> "2026-03-20"
      [] url = U_LipeResort /\ param = "checkout" -> "2026-03-22"
      [] url = U_LipeBeach /\ param = "checkin" -> "2026-03-14"
      [] url = U_LipeBeach /\ param = "checkout" -> "2026-03-16"
      [] url = U_LantaInn /\ param = "checkin" -> "tbc"
      [] url = U_LantaInn /\ param = "checkout" -> "2026-03-18"
      [] url = U_SeaView /\ param = "checkin" -> "9999-12-31"
      [] url = U_Search /\ param = "checkin" -> "2026-03-16"
      [] OTHER -> ""

\* date.fromisoformat; ValueError where it raises
fromisoformat(s) ==
    CASE s = "2026-03-14" -> 20260314
      [] s = "2026-03-16" -> 20260316
      [] s = "2026-03-18" -> 20260318
      [] s = "2026-03-20" -> 20260320
      [] s = "2026-03-22" -> 20260322
      [] s = "9999-12-31" -> 99991231
      [] OTHER -> ValueError

\* The conversion without the except clause: the exception escapes
uncaught_fromisoformat(s) == fromisoformat(s)

\* try: date.fromisoformat(...) except ValueError: pass -- the date stays None
try_fromisoformat(s) ==
    IF fromisoformat(s) = ValueError THEN NoDate ELSE fromisoformat(s)

\* DATE_PATTERN.search on one token: <<day, month, year>> (year 0: group absent),
\* <<>> when the token holds no match.
DATE_PATTERN(tok) ==
    CASE tok = "14 Mar" -> <<14, "Mar", 0>>
      [] tok = "16th March" -> <<16, "March", 0>>
      [] tok = "20th March 2026" -> <<20, "March", 2026>>
      [] tok = "31 Feb" -> <<31, "Feb", 0>>
      [] OTHER -> <<>>

MonthNumber(m) ==
    CASE m \in {"Mar", "March"} -> 3
      [] m = "Feb" -> 2
      [] OTHER -> 0

\* The days of a month of the trip year
DaysInMonth(n) == IF n = 2 THEN 28 ELSE 31

\* dateparser.parse(f"{day} {month} {year}").date(); NoDate when it returns None
dateparser_parse(day, month, year) ==
    IF MonthNumber(month) \in 1..12 /\ day \in 1..DaysInMonth(MonthNumber(month))
    THEN year * 10000 + MonthNumber(month) * 100 + day
    ELSE NoDate

\* CONFIRMATION_PATTERNS: some pattern of the list matches inside the token
CONFIRMATION_PATTERNS(tok) ==
    tok \in {"booked!", "all done", "sorted", "confirmed", "Booked"}

\* The substring tests of the source, on the lower-cased token: the search
\* strings (FLIGHT_CONTEXT, TRANSFER_KEYWORDS, islands, airports) it contains.
Needles(tok) ==
    CASE tok \in {U_LipeResort, U_LipeBeach, P_LipeResort, P_LipeResortUpper}
            -> {"booking", "lipe"}
      [] tok \in {U_LantaInn, P_LantaInn} -> {"booking", "lanta"}
      [] tok \in {U_SeaView, U_Search, P_Riverside, P_Sukhumvit} -> {"booking"}
      [] tok = "flight" -> {"flight"}
      [] tok = "flying" -> {"fly", "flying"}
      [] tok = "LHR" -> {"lhr"}
      [] tok = "BKK" -> {"bkk"}
      [] tok = "Krabi" -> {"krabi"}
      [] tok \in {"£450pp", "£12.50"} -> {"£"}
      [] tok \in {"ferry", "Ferry"} -> {"ferry"}
      [] tok = "speedboat" -> {"speedboat"}
      [] tok = "Koh Lipe" -> {"koh lipe", "lipe"}
      [] tok = "Koh Lanta" -> {"koh lanta", "lanta"}
      [] tok = "Koh Mook" -> {"koh mook"}
      [] tok = "Lanta" -> {"lanta"}
      [] tok = "Kradan" -> {"kradan"}
      [] OTHER -> {}

\* `needle in content.lower()` (and `code.upper() in content.upper()`)
Contains(content, needle) ==
    \E k \in 1..Len(content) : needle \in Needles(content[k])

MinOf(S) == CHOOSE x \in S : \A y \in S : x <= y

\* ------------------------------------------------------------ data model
CONFIRMED == "confirmed"
TENTATIVE == "tentative"
HOTEL == "hotel"
FLIGHT == "flight"
TRANSFER == "transfer"

\* Message(timestamp, sender, content, is_system); the timestamp is the
\* position in the transcript.
Message(sender, content, is_system) ==
    [sender |-> sender, content |-> content, is_system |-> is_system]

\* TravelItem(...) as the detectors construct it; source is the index of the
\* evidencing message in self.messages (source_messages=[msg]).
TravelItem(id, category, status, title, start_date, end_date, proposed_by, details, booking_links, source) ==
    [id |-> id, category |-> category, status |-> status, title |-> title,
     start_date |-> start_date, end_date |-> end_date,
     proposed_by |-> proposed_by, details |-> details,
     booking_links |-> booking_links, source |-> source]

\* ------------------------------------------------------- shared services
\* The increment dropped: every id is formed from the same counter value
generate_id_stuck(counter) ==
    [counter |-> counter, id |-> <<"item-", counter + 1>>]

\* _generate_id: the counter after the increment, and f"item-{counter}"
generate_id(counter) ==
    [counter |-> counter + 1, id |-> <<"item-", counter + 1>>]

\* The messages msgs[start:end] (0-based, end exclusive) that satisfy P are
\* scanned in order; these are their 1-based positions.
Slice(msgs, start, end) == (start + 1)..end

HasConfirmation(content) ==
    \E k \in 1..Len(content) : CONFIRMATION_PATTERNS(content[k])

\* The scan with the message at message_index + window included
check_confirmation_inclusive(msgs, message_index) ==
    LET start == Max(0, message_index - ConfirmBefore)
        end == Min(Len(msgs), message_index + ConfirmWindow + 1)
    IN IF \E j \in Slice(msgs, start, end) : HasConfirmation(msgs[j].content)
       THEN CONFIRMED ELSE TENTATIVE

\* _check_confirmation(message_index, window=8)
check_confirmation(msgs, message_index) ==
    LET start == Max(0, message_index - ConfirmBefore)
        end == Min(Len(msgs), message_index + ConfirmWindow)
    IN IF \E j \in Slice(msgs, start, end) : HasConfirmation(msgs[j].content)
       THEN CONFIRMED ELSE TENTATIVE

\* DATE_PATTERN.search(msg.content): the groups of the first match, <<>> if none
date_search(content) ==
    LET hits == {k \in 1..Len(content) : DATE_PATTERN(content[k]) # <<>>}
    IN IF hits = {} THEN <<>> ELSE DATE_PATTERN(content[MinOf(hits)])

\* The body of the loop of _extract_date_from_context for one message:
\* the parsed date of its first match, NoDate if no match or no parse.
date_of_message(content) ==
    LET g == date_search(content)
    IN IF g = <<>> THEN NoDate
       ELSE dateparser_parse(g[1], g[2], IF g[3] = 0 THEN TripYear ELSE g[3])

\* The scan that looks at the message being resolved before its neighbours
extract_date_own_message_first(msgs, message_index) ==
    LET start == Max(0, message_index - DateWindow)
        end == Min(Len(msgs), message_index + DateWindow)
        hits == {j \in Slice(msgs, start, end) : date_of_message(msgs[j].content) # NoDate}
    IN IF date_of_message(msgs[message_index + 1].content) # NoDate
       THEN date_of_message(msgs[message_index + 1].content)
       ELSE IF hits = {} THEN NoDate ELSE date_of_message(msgs[MinOf(hits)].content)

\* _extract_date_from_context(message_index, window=5)
extract_date_from_context(msgs, message_index) ==
    LET start == Max(0, message_index - DateWindow)
        end == Min(Len(msgs), message_index + DateWindow)
        hits == {j \in Slice(msgs, start, end) : date_of_message(msgs[j].content) # NoDate}
    IN IF hits = {} THEN NoDate ELSE date_of_message(msgs[MinOf(hits)].content)

\* The link dates with a checkin that fails to parse replaced by the checkout
extract_dates_checkout_for_checkin(url) ==
    << IF try_fromisoformat(parse_qs(url, "checkin")) # NoDate
       THEN try_fromisoformat(parse_qs(url, "checkin"))
       ELSE try_fromisoformat(parse_qs(url, "checkout")),
       try_fromisoformat(parse_qs(url, "checkout")) >>

\* _extract_dates_from_booking_url: <<check_in, check_out>>
extract_dates_from_booking_url(url) ==
    << IF parse_qs(url, "checkin") # "" THEN try_fromisoformat(parse_qs(url, "checkin")) ELSE NoDate,
       IF parse_qs(url, "checkout") # "" THEN try_fromisoformat(parse_qs(url, "checkout")) ELSE NoDate >>

\* _extract_hotel_name_from_url
extract_hotel_name_from_url(url) ==
    IF url_path_segment(url) # "" THEN replace_title(url_path_segment(url)) ELSE ""

\* BOOKING_URL_PATTERN.findall(text)
booking_urls(content) == SelectSeq(content, BOOKING_URL_PATTERN)

\* ------------------------------------------------------- hotel detector
\* The naming with the priority reversed: the link-path name first, the
\* phrase only when no link yields a name
hotel_name_link_first(content) ==
    LET phrases == {k \in 1..Len(content) : checkout_pattern(content[k]) # ""}
        urls == booking_urls(content)
        named == {k \in 1..Len(urls) : extract_hotel_name_from_url(urls[k]) # ""}
    IN IF named # {} THEN extract_hotel_name_from_url(urls[MinOf(named)])
       ELSE IF phrases = {} THEN ""
       ELSE strip(checkout_pattern(content[MinOf(phrases)]))

\* The name of the hotel a message names: the "Check out X on Booking.com"
\* phrase first, else the first link whose path yields a name; "" if none.
hotel_name_of(content) ==
    LET phrases == {k \in 1..Len(content) : checkout_pattern(content[k]) # ""}
        phrase == IF phrases = {} THEN ""
                  ELSE strip(checkout_pattern(content[MinOf(phrases)]))
        urls == booking_urls(content)
        named == {k \in 1..Len(urls) : extract_hotel_name_from_url(urls[k]) # ""}
    IN IF phrase # "" THEN phrase
       ELSE IF named = {} THEN ""
       ELSE extract_hotel_name_from_url(urls[MinOf(named)])

\* The stay dates the links of a message give: those of the last link with a
\* parseable checkin; <<NoDate, NoDate>> if no link has one.
MaxOf(S) == CHOOSE x \in S : \A y \in S : x >= y

\* The stay dates with the checkout of the last link kept when no link has a
\* checkin that parses
url_stay_dates_keep_checkout(content) ==
    LET urls == booking_urls(content)
        dated == {k \in 1..Len(urls) : extract_dates_from_booking_url(urls[k])[1] # NoDate}
    IN IF dated # {} THEN extract_dates_from_booking_url(urls[MaxOf(dated)])
       ELSE IF Len(urls) = 0 THEN <<NoDate, NoDate>>
       ELSE <<NoDate, extract_dates_from_booking_url(urls[Len(urls)])[2]>>

url_stay_dates(content) ==
    LET urls == booking_urls(content)
        dated == {k \in 1..Len(urls) : extract_dates_from_booking_url(urls[k])[1] # NoDate}
    IN IF dated = {} THEN <<NoDate, NoDate>>
       ELSE extract_dates_from_booking_url(urls[MaxOf(dated)])

\* booking_links=[booking_link] if booking_link else [] (the last link)
booking_links_of(content) ==
    LET urls == booking_urls(content)
    IN IF Len(urls) = 0 THEN <<>> ELSE <<urls[Len(urls)]>>

\* The key without the lower-casing
hotel_key_cased(hotel_name) == strip(hotel_name)

\* hotel_key = hotel_name.lower().strip()
hotel_key(hotel_name) == strip(lower(hotel_name))

\* One iteration of the loop of _extract_hotels, on message i (0-based), from
\* the loop state st = [items, seen, counter].
hotel_step(msgs, i, st) ==
    LET msg == msgs[i + 1]
        hotel_name == hotel_name_of(msg.content)
        url_dates == url_stay_dates(msg.content)
        check_in == IF url_dates[1] # NoDate THEN url_dates[1]
                    ELSE extract_date_from_context(msgs, i)
        check_out == url_dates[2]
        g == generate_id(st.counter)
    IN IF hotel_name = "" THEN st
       ELSE IF hotel_key(hotel_name) \in st.seen THEN st
       ELSE [items |-> Append(st.items,
                         TravelItem(g.id, HOTEL, check_confirmation(msgs, i),
                                    <<hotel_name>>, check_in, check_out,
                                    msg.sender, {}, booking_links_of(msg.content), i)),
             seen |-> st.seen \cup {hotel_key(hotel_name)},
             counter |-> g.counter]

RECURSIVE hotel_loop(_, _, _)
hotel_loop(msgs, i, st) ==
    IF i >= Len(msgs) THEN st
    ELSE hotel_loop(msgs, i + 1, hotel_step(msgs, i, st))

\* _extract_hotels, from the dedup set and the counter it starts with
extract_hotels(msgs, seen0, counter) ==
    hotel_loop(msgs, 0, [items |-> <<>>, seen |-> seen0, counter |-> counter])

\* ------------------------------------------------------ flight detector
\* AIRLINE_PATTERNS, in table order (the canonical names)
AIRLINE_PATTERNS ==
    <<"Etihad", "Air Asia", "Thai Airways", "Qatar", "British Airways",
      "VietJet", "Oman Air">>

\* The airline whose pattern matches inside the token, "" if none
airline_token(tok) ==
    CASE tok \in {"Etihad", "etihad"} -> "Etihad"
      [] tok \in {"AirAsia", "Air Asia"} -> "Air Asia"
      [] tok = "Qatar" -> "Qatar"
      [] OTHER -> ""

\* pattern.search(msg.content) for the pattern of `airline`; the Qatar pattern
\* carries the negative lookahead (?!\s+(?:hotel|resort)).
airline_search(content, airline) ==
    \E k \in 1..Len(content) :
        /\ airline_token(content[k]) = airline
        /\ airline = "Qatar" =>
              ~(k < Len(content) /\ content[k + 1] \in {"hotel", "resort", "Hotel"})

\* FLIGHT_CONTEXT, lower-cased
FLIGHT_CONTEXT ==
    {"flight", "fly", "flying", "depart", "arrive", "layover", "airport",
     "lhr", "bkk", "booking", "£"}

\* any(ctx.lower() in content_lower for ctx in FLIGHT_CONTEXT)
has_flight_context(content) ==
    \E k \in 1..Len(content) : Needles(content[k]) \cap FLIGHT_CONTEXT # {}

\* COST_PATTERN: group(1) of the match inside the token, "" if none
COST_PATTERN(tok) ==
    CASE tok = "£450pp" -> "450"
      [] tok = "£12.50" -> "12.50"
      [] OTHER -> ""

\* costs[0] if costs else None
first_cost(content) ==
    LET hits == {k \in 1..Len(content) : COST_PATTERN(content[k]) # ""}
    IN IF hits = {} THEN "" ELSE COST_PATTERN(content[MinOf(hits)])

\* The keys of the airports table of _identify_route, in table order
airports == <<"LHR", "BKK", "Phuket", "Krabi", "Lanta">>

airport_needle(code) ==
    CASE code = "LHR" -> "lhr"
      [] code = "BKK" -> "bkk"
      [] code = "Phuket" -> "phuket"
      [] code = "Krabi" -> "krabi"
      [] code = "Lanta" -> "lanta"

\* _identify_route: f"{found[0]} -> {found[1]}" as <<found[0], "→", found[1]>>,
\* <<>> for None
identify_route(content) ==
    LET found == SelectSeq(airports, LAMBDA code : Contains(content, airport_needle(code)))
    IN IF Len(found) >= 2 THEN <<found[1], "→", found[2]>> ELSE <<>>

\* _extract_date_from_booking_url_in_text
extract_date_from_booking_url_in_text(content) ==
    LET urls == booking_urls(content)
        dated == {k \in 1..Len(urls) : extract_dates_from_booking_url(urls[k])[1] # NoDate}
    IN IF dated = {} THEN NoDate
       ELSE extract_dates_from_booking_url(urls[MinOf(dated)])[1]

\* dedup_key = f"{airline_name}-{route or 'unknown'}-{flight_date or 'nodate'}"
flight_dedup_key(airline_name, route, flight_date) ==
    <<airline_name, IF route = <<>> THEN <<"unknown">> ELSE route, flight_date>>

\* The gate left open: every detection is kept
flight_gate_open(status, flight_date) == TRUE

\* "Only include if confirmed or has a date": the item is kept
flight_gate(status, flight_date) == status = CONFIRMED \/ flight_date # NoDate

\* The inner loop without the test of the dedup key
RECURSIVE flight_patterns_no_dedup(_, _, _, _)
flight_patterns_no_dedup(msgs, i, p, st) ==
    IF p > Len(AIRLINE_PATTERNS) THEN st
    ELSE
      LET msg == msgs[i + 1]
          airline_name == AIRLINE_PATTERNS[p]
          cost == first_cost(msg.content)
          route == identify_route(msg.content)
          url_date == extract_date_from_booking_url_in_text(msg.content)
          flight_date == IF url_date # NoDate THEN url_date
                         ELSE extract_date_from_context(msgs, i)
          status == check_confirmation(msgs, i)
          g == generate_id(st.counter)
          title == IF route # <<>> THEN <<airline_name>> \o route
                   ELSE <<airline_name, "Flight">>
          details == IF cost # "" THEN {<<"cost", <<"£", cost>>>>} ELSE {}
      IN IF ~airline_search(msg.content, airline_name) \/ ~flight_gate(status, flight_date)
         THEN flight_patterns_no_dedup(msgs, i, p + 1, st)
         ELSE [items |-> Append(st.items,
                           TravelItem(g.id, FLIGHT, status, title, flight_date,
                                      NoDate, msg.sender, details, <<>>, i)),
               seen |-> st.seen,
               counter |-> g.counter]

\* The inner loop of _extract_flights over AIRLINE_PATTERNS from pattern p on,
\* for message i: `continue` goes to the next pattern, `break` ends the loop.
RECURSIVE flight_patterns(_, _, _, _)
flight_patterns(msgs, i, p, st) ==
    IF p > Len(AIRLINE_PATTERNS) THEN st
    ELSE
      LET msg == msgs[i + 1]
          airline_name == AIRLINE_PATTERNS[p]
          cost == first_cost(msg.content)
          route == identify_route(msg.content)
          url_date == extract_date_from_booking_url_in_text(msg.content)
          flight_date == IF url_date # NoDate THEN url_date
                         ELSE extract_date_from_context(msgs, i)
          dedup_key == flight_dedup_key(airline_name, route, flight_date)
          status == check_confirmation(msgs, i)
          marked == [st EXCEPT !.seen = st.seen \cup {dedup_key}]
          g == generate_id(st.counter)
          title == IF route # <<>> THEN <<airline_name>> \o route
                   ELSE <<airline_name, "Flight">>
          details == IF cost # "" THEN {<<"cost", <<"£", cost>>>>} ELSE {}
      IN IF ~airline_search(msg.content, airline_name)
         THEN flight_patterns(msgs, i, p + 1, st)
         ELSE IF dedup_key \in st.seen
         THEN flight_patterns(msgs, i, p + 1, st)
         ELSE IF ~flight_gate(status, flight_date)
         THEN flight_patterns(msgs, i, p + 1, marked)
         ELSE [items |-> Append(st.items,
                           TravelItem(g.id, FLIGHT, status, title, flight_date,
                                      NoDate, msg.sender, details, <<>>, i)),
               seen |-> marked.seen,
               counter |-> g.counter]

\* One iteration of the outer loop of _extract_flights
flight_step(msgs, i, st) ==
    IF ~has_flight_context(msgs[i + 1].content) THEN st
    ELSE flight_patterns(msgs, i, 1, st)

RECURSIVE flight_loop(_, _, _)
flight_loop(msgs, i, st) ==
    IF i >= Len(msgs) THEN st
    ELSE flight_loop(msgs, i + 1, flight_step(msgs, i, st))

\* _extract_flights
extract_flights(msgs, seen0, counter) ==
    flight_loop(msgs, 0, [items |-> <<>>, seen |-> seen0, counter |-> counter])

\* ---------------------------------------------------- transfer detector
TRANSFER_KEYWORDS == <<"ferry", "speedboat", "longtail boat">>

\* keyword.title()
str_title(keyword) ==
    CASE keyword = "ferry" -> "Ferry"
      [] keyword = "speedboat" -> "Speedboat"
      [] keyword = "longtail boat" -> "Longtail Boat"

\* re.search(r"(\d{1,2})[:.:](\d{2})"): the groups of the leftmost match
\* inside the token, <<>> if none
time_pattern(tok) ==
    CASE tok = "10.45" -> <<"10", "45">>
      [] tok = "10:45" -> <<"10", "45">>
      [] tok = "£12.50" -> <<"12", "50">>
      [] OTHER -> <<>>

\* time_str = f"{group(1)}:{group(2)}" of the first match, <<>> for None
time_str_of(content) ==
    LET hits == {k \in 1..Len(content) : time_pattern(content[k]) # <<>>}
        g == time_pattern(content[MinOf(hits)])
    IN IF hits = {} THEN <<>> ELSE <<g[1], ":", g[2]>>

\* The islands list, in list order
islands ==
    <<"Koh Lipe", "Koh Lanta", "Koh Kradan", "Koh Libong", "Koh Mook",
      "Koh Ngai", "Lipe", "Lanta", "Kradan", "Libong">>

\* island.lower()
island_needle(island) ==
    CASE island = "Koh Lipe" -> "koh lipe"
      [] island = "Koh Lanta" -> "koh lanta"
      [] island = "Koh Kradan" -> "koh kradan"
      [] island = "Koh Libong" -> "koh libong"
      [] island = "Koh Mook" -> "koh mook"
      [] island = "Koh Ngai" -> "koh ngai"
      [] island = "Lipe" -> "lipe"
      [] island = "Lanta" -> "lanta"
      [] island = "Kradan" -> "kradan"
      [] island = "Libong" -> "libong"

\* island.replace("Koh ", "")
normalized(island) ==
    CASE island = "Koh Lipe" -> "Lipe"
      [] island = "Koh Lanta" -> "Lanta"
      [] island = "Koh Kradan" -> "Kradan"
      [] island = "Koh Libong" -> "Libong"
      [] island = "Koh Mook" -> "Mook"
      [] island = "Koh Ngai" -> "Ngai"
      [] OTHER -> island

InSeq(x, sq) == \E k \in 1..Len(sq) : sq[k] = x

\* The loop over islands that fills route_parts
RECURSIVE route_parts_from(_, _, _)
route_parts_from(content, k, route_parts) ==
    IF k > Len(islands) THEN route_parts
    ELSE IF Contains(content, island_needle(islands[k]))
            /\ ~InSeq(normalized(islands[k]), route_parts)
    THEN route_parts_from(content, k + 1, Append(route_parts, normalized(islands[k])))
    ELSE route_parts_from(content, k + 1, route_parts)

\* The rank of an island name in Python's string order
island_rank(name) ==
    CASE name = "Kradan" -> 1
      [] name = "Lanta" -> 2
      [] name = "Libong" -> 3
      [] name = "Lipe" -> 4
      [] name = "Mook" -> 5
      [] name = "Ngai" -> 6

\* sorted(route_parts)
RECURSIVE sorted_parts(_)
sorted_parts(parts) ==
    IF Len(parts) = 0 THEN <<>>
    ELSE LET m == CHOOSE k \in 1..Len(parts) :
                     \A j \in 1..Len(parts) : island_rank(parts[k]) <= island_rank(parts[j])
             rest == [j \in 1..(Len(parts) - 1) |-> IF j < m THEN parts[j] ELSE parts[j + 1]]
         IN <<parts[m]>> \o sorted_parts(rest)

\* dedup_key = f"{keyword}-{'-'.join(sorted(route_parts))}-{transfer_date or 'nodate'}"
transfer_dedup_key(keyword, route_parts, transfer_date) ==
    <<keyword, sorted_parts(route_parts), transfer_date>>

\* The title of a transfer item
transfer_title(keyword, route_parts) ==
    IF Len(route_parts) >= 2
    THEN <<str_title(keyword), route_parts[1], "→", route_parts[2]>>
    ELSE IF Len(route_parts) >= 1
    THEN <<str_title(keyword), "to", route_parts[1]>>
    ELSE <<str_title(keyword)>>

\* The gate left open: every keyword mention is kept
transfer_gate_open(status, route_parts, time_str) == TRUE

\* "Only include if confirmed or has specific route/time info": the item is kept
transfer_gate(status, route_parts, time_str) ==
    status = CONFIRMED \/ route_parts # <<>> \/ time_str # <<>>

\* The inner loop without the test of the dedup key
RECURSIVE transfer_keywords_no_dedup(_, _, _, _)
transfer_keywords_no_dedup(msgs, i, q, st) ==
    IF q > Len(TRANSFER_KEYWORDS) THEN st
    ELSE
      LET msg == msgs[i + 1]
          keyword == TRANSFER_KEYWORDS[q]
          time_str == time_str_of(msg.content)
          route_parts == route_parts_from(msg.content, 1, <<>>)
          status == check_confirmation(msgs, i)
          transfer_date == extract_date_from_context(msgs, i)
          g == generate_id(st.counter)
          details == IF time_str # <<>> THEN {<<"time", time_str>>} ELSE {}
      IN IF ~Contains(msg.content, keyword) \/ ~transfer_gate(status, route_parts, time_str)
         THEN transfer_keywords_no_dedup(msgs, i, q + 1, st)
         ELSE [items |-> Append(st.items,
                           TravelItem(g.id, TRANSFER, status,
                                      transfer_title(keyword, route_parts),
                                      transfer_date, NoDate, msg.sender,
                                      details, <<>>, i)),
               seen |-> st.seen,
               counter |-> g.counter]

\* The inner loop without its break: the keywords after a match are tried too
RECURSIVE transfer_keywords_no_break(_, _, _, _)
transfer_keywords_no_break(msgs, i, q, st) ==
    IF q > Len(TRANSFER_KEYWORDS) THEN st
    ELSE
      LET msg == msgs[i + 1]
          keyword == TRANSFER_KEYWORDS[q]
          time_str == time_str_of(msg.content)
          route_parts == route_parts_from(msg.content, 1, <<>>)
          status == check_confirmation(msgs, i)
          transfer_date == extract_date_from_context(msgs, i)
          dedup_key == transfer_dedup_key(keyword, route_parts, transfer_date)
          g == generate_id(st.counter)
          details == IF time_str # <<>> THEN {<<"time", time_str>>} ELSE {}
      IN IF \/ ~Contains(msg.content, keyword)
            \/ ~transfer_gate(status, route_parts, time_str)
            \/ dedup_key \in st.seen
         THEN transfer_keywords_no_break(msgs, i, q + 1, st)
         ELSE transfer_keywords_no_break(msgs, i, q + 1,
                [items |-> Append(st.items,
                             TravelItem(g.id, TRANSFER, status,
                                        transfer_title(keyword, route_parts),
                                        transfer_date, NoDate, msg.sender,
                                        details, <<>>, i)),
                 seen |-> st.seen \cup {dedup_key},
                 counter |-> g.counter])

\* The inner loop of _extract_transfers over TRANSFER_KEYWORDS from keyword q
\* on, for message i
RECURSIVE transfer_keywords(_, _, _, _)
transfer_keywords(msgs, i, q, st) ==
    IF q > Len(TRANSFER_KEYWORDS) THEN st
    ELSE
      LET msg == msgs[i + 1]
          keyword == TRANSFER_KEYWORDS[q]
          time_str == time_str_of(msg.content)
          route_parts == route_parts_from(msg.content, 1, <<>>)
          status == check_confirmation(msgs, i)
          transfer_date == extract_date_from_context(msgs, i)
          dedup_key == transfer_dedup_key(keyword, route_parts, transfer_date)
          g == generate_id(st.counter)
          details == IF time_str # <<>> THEN {<<"time", time_str>>} ELSE {}
      IN IF ~Contains(msg.content, keyword)
         THEN transfer_keywords(msgs, i, q + 1, st)
         ELSE IF ~transfer_gate(status, route_parts, time_str)
         THEN transfer_keywords(msgs, i, q + 1, st)
         ELSE IF dedup_key \in st.seen
         THEN transfer_keywords(msgs, i, q + 1, st)
         ELSE [items |-> Append(st.items,
                           TravelItem(g.id, TRANSFER, status,
                                      transfer_title(keyword, route_parts),
                                      transfer_date, NoDate, msg.sender,
                                      details, <<>>, i)),
               seen |-> st.seen \cup {dedup_key},
               counter |-> g.counter]

RECURSIVE transfer_loop(_, _, _)
transfer_loop(msgs, i, st) ==
    IF i >= Len(msgs) THEN st
    ELSE transfer_loop(msgs, i + 1, transfer_keywords(msgs, i, 1, st))

\* _extract_transfers
extract_transfers(msgs, seen0, counter) ==
    transfer_loop(msgs, 0, [items |-> <<>>, seen |-> seen0, counter |-> counter])

\* --------------------------------------------------------- orchestration
\* key=lambda x: x.start_date or date.max
sort_key(item) == IF item.start_date # NoDate THEN item.start_date ELSE DateMax

\* list.sort(key=...): stable, ascending
RECURSIVE insert_sorted(_, _)
insert_sorted(sorted, item) ==
    IF Len(sorted) = 0 THEN <<item>>
    ELSE IF sort_key(sorted[Len(sorted)]) <= sort_key(item)
    THEN Append(sorted, item)
    ELSE Append(insert_sorted(SubSeq(sorted, 1, Len(sorted) - 1), item),
                sorted[Len(sorted)])

RECURSIVE sort_from(_, _, _)
sort_from(items, k, sorted) ==
    IF k > Len(items) THEN sorted
    ELSE sort_from(items, k + 1, insert_sorted(sorted, items[k]))

\* A sort that is not stable: items with equal keys come out in reverse order
sort_items_reversing_ties(items) ==
    sort_from([k \in 1..Len(items) |-> items[Len(items) + 1 - k]], 1, <<>>)

sort_items(items) == sort_from(items, 1, <<>>)

\* The location_keywords table of _dedupe_by_location, in table order
location_keywords ==
    << <<"lipe", "Koh Lipe">>, <<"kradan", "Koh Kradan">>,
       <<"libong", "Koh Libong">>, <<"lanta", "Koh Lanta">>,
       <<"bangkok", "Bangkok">>, <<"sukhumvit", "Bangkok">>,
       <<"riverside", "Bangkok">> >>

\* `keyword in title_lower`: the keywords of the table a lower-cased title holds
title_keywords(title_lower) ==
    CASE title_lower \in {"lipe resort", "lipe beach"} -> {"lipe"}
      [] title_lower = "lanta inn" -> {"lanta"}
      [] title_lower = "riverside bangkok" -> {"riverside", "bangkok"}
      [] title_lower = "sukhumvit suites" -> {"sukhumvit"}
      [] OTHER -> {}

\* The location of a hotel title: that of the first keyword of the table the
\* title holds, "" for None
location_of(item_title) ==
    LET title_lower == lower(item_title[1])
        hits == {k \in 1..Len(location_keywords) :
                    location_keywords[k][1] \in title_keywords(title_lower)}
    IN IF hits = {} THEN "" ELSE location_keywords[MinOf(hits)][2]

\* The loop of _dedupe_by_location from position k on
RECURSIVE dedupe_loop(_, _, _, _)
dedupe_loop(items, k, seen_locations, result) ==
    IF k > Len(items) THEN result
    ELSE LET item == items[k]
             location == location_of(item.title)
         IN IF item.category # HOTEL
            THEN dedupe_loop(items, k + 1, seen_locations, Append(result, item))
            ELSE IF location = "" \/ location \notin seen_locations
            THEN dedupe_loop(items, k + 1,
                             IF location # "" THEN seen_locations \cup {location}
                             ELSE seen_locations,
                             Append(result, item))
            ELSE dedupe_loop(items, k + 1, seen_locations, result)

\* The pass run over the date-sorted list: the earliest-dated hotel is kept
dedupe_by_location_dated(items) == dedupe_loop(sort_items(items), 1, {}, <<>>)

\* The pass returning the hotels it keeps and nothing else
dedupe_by_location_hotels_only(items) ==
    dedupe_loop(SelectSeq(items, LAMBDA item : item.category = HOTEL), 1, {}, <<>>)

\* _dedupe_by_location
dedupe_by_location(items) == dedupe_loop(items, 1, {}, <<>>)

\* The status filter dropped
unfiltered_items(items) == items

\* [item for item in items if item.status == ItemStatus.CONFIRMED]
confirmed_items(items) == SelectSeq(items, LAMBDA item : item.status = CONFIRMED)

\* The dedup set kept from the previous run (an attribute never reset)
stale_seen(left_over) == left_over

\* A detector's dedup set when the detector starts (seen_x: set[str] = set());
\* left_over is what the previous run of the detector ended with.
fresh_seen(left_over) == {}

\* One counter for all instances (a class attribute)
shared_counter(self) == 1

\* self.item_counter: the counter an instance reads and writes is its own
counter_of(self) == self

\* extract_all, lines 66-74: the confirmed filter with the location pass, the
\* sort, and what the call leaves behind (h, f, t: the detectors' results)
filter_and_sort(h, f, t, confirmed_only) ==
    LET items == h.items \o f.items \o t.items
        kept == IF confirmed_only THEN dedupe_by_location(confirmed_items(items))
                ELSE items
    IN [items |-> sort_items(kept),
        detected |-> [hotels |-> h.items, flights |-> f.items, transfers |-> t.items],
        seen |-> [hotels |-> h.seen, flights |-> f.seen, transfers |-> t.seen],
        counter |-> t.counter]

\* extract_all, line 64: items.extend(self._extract_transfers())
with_transfers(msgs, left_over, h, f, confirmed_only) ==
    filter_and_sort(h, f,
                    extract_transfers(msgs, fresh_seen(left_over.transfers), f.counter),
                    confirmed_only)

\* extract_all, line 63: items.extend(self._extract_flights())
with_flights(msgs, left_over, h, confirmed_only) ==
    with_transfers(msgs, left_over, h,
                   extract_flights(msgs, fresh_seen(left_over.flights), h.counter),
                   confirmed_only)

\* extract_all(confirmed_only): hotels, then flights, then transfers, on one
\* id counter; returns the list and the state the call leaves
extract_all(msgs, left_over, counter, confirmed_only) ==
    with_flights(msgs, left_over,
                 extract_hotels(msgs, fresh_seen(left_over.hotels), counter),
                 confirmed_only)

\* The range read off the two ends of the sorted list
date_range_of_ends(items) ==
    IF items = <<>> THEN <<FallbackStart, FallbackEnd>>
    ELSE <<items[1].start_date, items[Len(items)].start_date>>

\* min(dates) / max(dates) over the dated items, else the known trip dates
date_range(items) ==
    LET dates == {items[k].start_date : k \in {j \in 1..Len(items) : items[j].start_date # NoDate}}
    IN IF dates # {} THEN <<MinOf(dates), MaxOf(dates)>>
       ELSE <<FallbackStart, FallbackEnd>>

\* Itinerary(title, participants, destination, start_date, end_date, items)
Itinerary(it_title, participants, destination, start_date, end_date, items) ==
    [title |-> it_title, participants |-> participants,
     destination |-> destination, start_date |-> start_date,
     end_date |-> end_date, items |-> items]

\* ------------------------------------------------------------- groupings
\* The grouping without the final sort: keys in order of first occurrence
items_by_date_unsorted(items) ==
    LET RECURSIVE entries(_, _)
        entries(k, done) ==
            IF k > Len(items) THEN <<>>
            ELSE IF items[k].start_date = NoDate \/ items[k].start_date \in done
            THEN entries(k + 1, done)
            ELSE << <<items[k].start_date,
                      SelectSeq(items, LAMBDA item : item.start_date = items[k].start_date)>> >>
                 \o entries(k + 1, done \cup {items[k].start_date})
    IN entries(1, {})

\* Itinerary.items_by_date: the dict as the sequence of its <<key, items>>
\* entries, in the dict's order (sorted by key)
items_by_date(items) ==
    LET keys == {items[k].start_date : k \in {j \in 1..Len(items) : items[j].start_date # NoDate}}
        RECURSIVE entries(_)
        entries(left) ==
            IF left = {} THEN <<>>
            ELSE LET key == MinOf(left)
                 IN << <<key, SelectSeq(items, LAMBDA item : item.start_date = key)>> >>
                    \o entries(left \ {key})
    IN entries(keys)

\* Itinerary.items_by_category: the dict as the sequence of its
\* <<category, items>> entries, in insertion order
items_by_category(items) ==
    LET RECURSIVE entries(_, _)
        entries(k, done) ==
            IF k > Len(items) THEN <<>>
            ELSE IF items[k].category \in done THEN entries(k + 1, done)
            ELSE << <<items[k].category,
                      SelectSeq(items, LAMBDA item : item.category = items[k].category)>> >>
                 \o entries(k + 1, done \cup {items[k].category})
    IN entries(1, {})

\* ------------------------------------------------------------ the inputs
\* SYSTEM_INDICATORS: some indicator occurs in the token
SYSTEM_INDICATORS(tok) == tok \in {"image omitted", "POLL:"}

\* is_system = any(indicator in content for indicator in SYSTEM_INDICATORS)
is_system_content(content) ==
    \E k \in 1..Len(content) : SYSTEM_INDICATORS(content[k])

Senders == <<"Ann", "Bob", "Cat">>
Filler == <<"ok">>

\* The contents of a transcript: the events in order, gaps[k] filler messages
\* after event k; each content with the number of the event it is (0: filler).
RECURSIVE Weave(_, _, _)
Weave(events, gaps, k) ==
    IF k > Len(events) THEN <<>>
    ELSE << <<k, events[k]>> >>
         \o (IF k < Len(events) THEN [j \in 1..gaps[k] |-> <<0, Filler>>] ELSE <<>>)
         \o Weave(events, gaps, k + 1)

\* The transcript the reader hands over: Message records in transcript order
Transcript(events, gaps) ==
    LET woven == Weave(events, gaps, 1)
    IN [n \in 1..Len(woven) |->
          Message(Senders[(woven[n][1] % Len(Senders)) + 1], woven[n][2],
                  is_system_content(woven[n][2]))]

Transcripts(pool) ==
    UNION {{Transcript(events, gaps) :
               events \in [1..k -> pool], gaps \in [1..(k - 1) -> {0, Pad}]} :
           k \in 0..MaxEvents}

\* A message the reader flags is-system, with no phrase of its own
SystemFiller == <<"image omitted">>

\* As Weave, with images[k] system messages and then gaps[k] filler messages
\* after event k
RECURSIVE WeaveMixed(_, _, _, _)
WeaveMixed(events, gaps, images, k) ==
    IF k > Len(events) THEN <<>>
    ELSE << <<k, events[k]>> >>
         \o (IF k < Len(events)
             THEN [j \in 1..images[k] |-> <<0, SystemFiller>>]
                  \o [j \in 1..gaps[k] |-> <<0, Filler>>]
             ELSE <<>>)
         \o WeaveMixed(events, gaps, images, k + 1)

MixedTranscript(events, gaps, images) ==
    LET woven == WeaveMixed(events, gaps, images, 1)
    IN [n \in 1..Len(woven) |->
          Message(Senders[(woven[n][1] % Len(Senders)) + 1], woven[n][2],
                  is_system_content(woven[n][2]))]

\* Transcripts whose events lie at every distance from 1 to MaxGap + 1 +
\* MaxImages of each other
WindowTranscripts(pool) ==
    UNION {{MixedTranscript(events, gaps, images) :
               events \in [1..k -> pool], gaps \in [1..(k - 1) -> 0..MaxGap],
               images \in [1..(k - 1) -> 0..MaxImages]} :
           k \in 0..WindowEvents}

\* An item as load_itinerary constructs it from a JSON document (models.TravelItem)
JsonItem(id, category, item_title, start_date) ==
    [id |-> id, category |-> category, title |-> item_title,
     start_date |-> start_date, end_date |-> NoDate, location |-> "",
     details |-> {}]

\* The filter dropped: the extractor keeps every message
all_messages(msgs) == msgs

\* self.messages = [m for m in messages if not m.is_system]
non_system(msgs) == SelectSeq(msgs, LAMBDA m : ~m.is_system)

NoSeen == [hotels |-> {}, flights |-> {}, transfers |-> {}]
NoDetected == [hotels |-> <<>>, flights |-> <<>>, transfers |-> <<>>]

\* The state after EntityExtractor(messages) was constructed twice on the
\* transcript t
InitExtract(t) ==
    /\ transcript = t
    /\ data = <<>>
    /\ messages = [e \in Instances |-> non_system(t)]
    /\ item_counter = [e \in Instances |-> 0]
    /\ seen = [e \in Instances |-> NoSeen]
    /\ detected = [e \in Instances |-> NoDetected]
    /\ returned = [e \in Instances |-> <<>>]
    /\ itinerary = <<>>
    /\ by_date = <<>>
    /\ by_category = <<>>

\* The state when main.py starts on the JSON document d: no extractor exists
InitMain(d) ==
    /\ transcript = <<>>
    /\ data = d
    /\ messages = <<>>
    /\ item_counter = <<>>
    /\ seen = <<>>
    /\ detected = <<>>
    /\ returned = <<>>
    /\ itinerary = <<>>
    /\ by_date = <<>>
    /\ by_category = <<>>

\* ------------------------------------------------------------ operations
RECURSIVE SumLen(_, _)
SumLen(f, S) ==
    IF S = {} THEN 0
    ELSE LET x == CHOOSE x \in S : TRUE IN Len(f[x]) + SumLen(f, S \ {x})

TotalCalls == SumLen(returned, DOMAIN returned)

\* The two instances are constructed alike: the one called first is instance 1
InCallOrder(self) == self = 1 \/ returned[1] # <<>>

\* What a call of extract_all on instance self leaves in the instance
Called(self, confirmed_only, r) ==
    /\ item_counter' = [item_counter EXCEPT ![counter_of(self)] = r.counter]
    /\ seen' = [seen EXCEPT ![self] = r.seen]
    /\ detected' = [detected EXCEPT ![self] = r.detected]
    /\ returned' = [returned EXCEPT ![self] =
                      Append(@, [confirmed_only |-> confirmed_only, items |-> r.items,
                                 created |-> r.detected])]

\* EntityExtractor.extract_all(confirmed_only)
ExtractAll(self, confirmed_only) ==
    /\ self \in DOMAIN messages
    /\ InCallOrder(self)
    /\ TotalCalls < MaxCalls
    /\ Called(self, confirmed_only,
              extract_all(messages[self], seen[self],
                          item_counter[counter_of(self)], confirmed_only))
    /\ UNCHANGED <<transcript, data, messages, itinerary, by_date, by_category>>

\* EntityExtractor.build_itinerary(title, participants, confirmed_only)
BuildItinerary(self, confirmed_only) ==
    /\ self \in DOMAIN messages
    /\ InCallOrder(self)
    /\ TotalCalls < MaxCalls
    /\ \E r \in {extract_all(messages[self], seen[self],
                              item_counter[counter_of(self)], confirmed_only)} :
          /\ Called(self, confirmed_only, r)
          /\ \E range \in {date_range(r.items)} :
                itinerary' = <<Itinerary("Trip", <<"Ann", "Bob">>, "Thailand",
                                         range[1], range[2], r.items)>>
    /\ by_date' = <<>>
    /\ by_category' = <<>>
    /\ UNCHANGED <<transcript, data, messages>>

\* main.load_itinerary(json_path)
LoadItinerary ==
    /\ data # <<>>
    /\ itinerary = <<>>
    /\ itinerary' = <<Itinerary("Trip", <<>>, "", NoDate, NoDate, data)>>
    /\ UNCHANGED <<transcript, data, messages, item_counter, seen, detected,
                   returned, by_date, by_category>>

\* HTMLGenerator.generate: the two groupings it reads from the itinerary
Generate ==
    /\ itinerary # <<>>
    /\ by_date = <<>>
    /\ by_date' = <<items_by_date(itinerary[1].items)>>
    /\ by_category' = <<items_by_category(itinerary[1].items)>>
    /\ UNCHANGED <<transcript, data, messages, item_counter, seen, detected,
                   returned, itinerary>>

Next ==
    \/ \E self \in Instances, confirmed_only \in BOOLEAN : ExtractAll(self, confirmed_only)
    \/ \E self \in Instances, confirmed_only \in BOOLEAN : BuildItinerary(self, confirmed_only)
    \/ LoadItinerary
    \/ Generate

\* ---------------------------------------------------------- specifications
JsonPool ==
    {JsonItem("a", FLIGHT, "Etihad LHR", 20260320),
     JsonItem("b", HOTEL, "Lipe Resort", 20260314),
     JsonItem("c", "activity", "Snorkelling", NoDate),
     JsonItem("d", TRANSFER, "Ferry", 20260314)}

JsonDocs(n) == UNION {[1..k -> JsonPool] : k \in 1..n}

FlightPool ==
    {<<"Etihad", "flight">>, <<"Qatar", "Etihad", "flight">>, <<"Etihad">>,
     <<"booked!">>, <<"14 Mar">>}

InitFlight ==
    \/ \E t \in Transcripts(FlightPool) : InitExtract(t)
    \/ \E d \in JsonDocs(1) : InitMain(d)

SpecFlight == InitFlight /\ [][Next]_vars

TransferPool ==
    {<<"ferry", "Koh Lipe", "Koh Lanta">>, <<"ferry", "Koh Lanta", "Koh Lipe">>,
     <<"speedboat">>, <<"speedboat", "10.45">>, <<"booked!">>, <<"14 Mar">>}

InitTransfer ==
    \/ \E t \in Transcripts(TransferPool) : InitExtract(t)
    \/ \E d \in JsonDocs(1) : InitMain(d)

SpecTransfer == InitTransfer /\ [][Next]_vars

HotelPool ==
    {<<P_LipeResortUpper>>, <<P_LipeResort, U_LipeResort>>,
     <<P_LantaInn, U_LantaInn>>, <<"booked!">>, <<"16th March">>}

InitHotel ==
    \/ \E t \in Transcripts(HotelPool) : InitExtract(t)
    \/ \E d \in JsonDocs(1) : InitMain(d)

SpecHotel == InitHotel /\ [][Next]_vars

LocationPool ==
    {<<P_LipeResort, U_LipeResort>>, <<U_LipeBeach>>,
     <<"Booked", P_LantaInn, U_LantaInn>>, <<P_Riverside>>, <<P_Sukhumvit>>}

InitLocation ==
    \/ \E t \in Transcripts(LocationPool) : InitExtract(t)
    \/ \E d \in JsonDocs(1) : InitMain(d)

SpecLocation == InitLocation /\ [][Next]_vars

DedupePool ==
    {<<"Booked", P_LipeResort, U_LipeResort>>, <<U_LipeBeach>>,
     <<"Etihad", "flight", U_SeaView>>, <<"ferry", "Koh Lipe", "14 Mar">>,
     <<P_Riverside>>}

InitDedupe ==
    \/ \E t \in Transcripts(DedupePool) : InitExtract(t)
    \/ \E d \in JsonDocs(1) : InitMain(d)

SpecDedupe == InitDedupe /\ [][Next]_vars

DatePool ==
    {<<P_LipeResortUpper, "20th March 2026">>, <<"14 Mar">>, <<"16th March", "14 Mar">>,
     <<"31 Feb", "14 Mar">>, <<"ferry", "Koh Lipe">>}

InitDate ==
    \/ \E t \in Transcripts(DatePool) : InitExtract(t)
    \/ \E d \in JsonDocs(1) : InitMain(d)

SpecDate == InitDate /\ [][Next]_vars

KeywordPool ==
    {<<"ferry", "speedboat", "Koh Lipe">>, <<"ferry", "Koh Lipe">>,
     <<"speedboat", "10.45", "ferry">>, <<"booked!">>, <<"14 Mar">>}

InitKeyword ==
    \/ \E t \in Transcripts(KeywordPool) : InitExtract(t)
    \/ \E d \in JsonDocs(1) : InitMain(d)

SpecKeyword == InitKeyword /\ [][Next]_vars

RoutePool ==
    {<<"Etihad", "flight", "LHR", "BKK", "14 Mar">>, <<"Etihad", "flight", "14 Mar">>,
     <<"etihad", "LHR", "BKK">>, <<"Qatar", "flight", "booked!">>, <<"Etihad", "flight">>}

InitRoute ==
    \/ \E t \in Transcripts(RoutePool) : InitExtract(t)
    \/ \E d \in JsonDocs(1) : InitMain(d)

SpecRoute == InitRoute /\ [][Next]_vars

HotelLinkPool ==
    {<<P_LipeResort, U_LipeBeach>>, <<U_Search>>, <<U_Search, U_SeaView>>,
     <<P_LipeResortUpper>>, <<"16th March">>, <<U_LantaInn>>}

InitHotelLink ==
    \/ \E t \in Transcripts(HotelLinkPool) : InitExtract(t)
    \/ \E d \in JsonDocs(1) : InitMain(d)

SpecHotelLink == InitHotelLink /\ [][Next]_vars

MixedPool ==
    {<<P_LipeResortUpper>>, <<U_SeaView>>,
     <<"Etihad", "flight", "20th March 2026">>, <<"ferry", "Koh Lipe", "14 Mar">>,
     <<"booked!">>, <<"POLL:", "sorted", "16th March">>}

Init ==
    \/ \E t \in Transcripts(MixedPool) : InitExtract(t)
    \/ \E d \in JsonDocs(MaxEvents) : InitMain(d)

Spec == Init /\ [][Next]_vars

WindowPool ==
    {<<P_LipeResortUpper>>, <<"booked!">>, <<"16th March">>,
     <<"POLL:", "sorted", "16th March">>, <<"image omitted", P_LantaInn>>,
     <<U_LantaInn>>, <<"Etihad", "flight", U_LantaInn>>}

InitWindow ==
    \/ \E t \in WindowTranscripts(WindowPool) : InitExtract(t)
    \/ \E d \in JsonDocs(1) : InitMain(d)

SpecWindow == InitWindow /\ [][Next]_vars

\* ------------------------------------------------------------------ claims
\* The calls of extract_all made so far: <<instance, number of the call>>
Calls == UNION {{<<e, c>> : c \in 1..Len(returned[e])} : e \in DOMAIN returned}

\* The instances on which extract_all has run
Ran == {e \in DOMAIN returned : returned[e] # <<>>}

Range(sq) == {sq[k] : k \in 1..Len(sq)}

\* The message at 0-based index i names an airline of the table
MentionsAirline(msgs, i) ==
    \E p \in 1..Len(AIRLINE_PATTERNS) : airline_search(msgs[i + 1].content, AIRLINE_PATTERNS[p])

\* A confirmation phrase lies in the confirmation window of index i:
\* 3 messages before to 7 messages after
InConfirmationWindow(msgs, i) ==
    \E j \in 0..(Len(msgs) - 1) :
        /\ i - 3 <= j
        /\ j <= i + 7
        /\ HasConfirmation(msgs[j + 1].content)

\* The date the flight detector finds for index i: link first, then context
FlightDateAt(msgs, i) ==
    IF extract_date_from_booking_url_in_text(msgs[i + 1].content) # NoDate
    THEN extract_date_from_booking_url_in_text(msgs[i + 1].content)
    ELSE extract_date_from_context(msgs, i)

\* The FLIGHT items the last run on instance e created from message i
FlightsFrom(e, i) == {item \in Range(detected[e].flights) : item.source = i}

\* C1: every FLIGHT item extract_all returns, for either value of
\* confirmed_only, has status CONFIRMED or a start date.
C1_FlightConfirmedOrDated ==
    \A call \in Calls :
        \A item \in Range(returned[call[1]][call[2]].items) :
            item.category = FLIGHT =>
                item.status = CONFIRMED \/ item.start_date # NoDate

\* C1 witness: a run returned a flight item while an eligible, unconfirmed,
\* undated airline mention of the same transcript produced none.
C1_Witness ==
    \E call \in Calls :
        LET e == call[1]
            msgs == messages[e]
        IN /\ \E item \in Range(returned[e][call[2]].items) : item.category = FLIGHT
           /\ \E i \in 0..(Len(msgs) - 1) :
                 /\ has_flight_context(msgs[i + 1].content)
                 /\ MentionsAirline(msgs, i)
                 /\ ~InConfirmationWindow(msgs, i)
                 /\ FlightDateAt(msgs, i) = NoDate
                 /\ FlightsFrom(e, i) = {}

\* Flight gate scenario, parts (1) and (2): an airline mention without a
\* flight-context token yields no FLIGHT item; one with a context token, no
\* date and no confirmation in its window yields none either.
FlightGateNoItem(e) ==
    LET msgs == messages[e]
    IN \A i \in 0..(Len(msgs) - 1) :
          MentionsAirline(msgs, i) =>
             /\ ~(\E k \in 1..Len(msgs[i + 1].content) :
                      Needles(msgs[i + 1].content[k]) \cap FLIGHT_CONTEXT # {})
                   => FlightsFrom(e, i) = {}
             /\ (FlightDateAt(msgs, i) = NoDate /\ ~InConfirmationWindow(msgs, i))
                   => FlightsFrom(e, i) = {}

\* An airline of message i that no earlier flight-context message mentions
\* with the same inferred route and date
FreshAirline(msgs, i) ==
    \E p \in 1..Len(AIRLINE_PATTERNS) :
        /\ airline_search(msgs[i + 1].content, AIRLINE_PATTERNS[p])
        /\ ~\E j \in 0..(i - 1) :
               /\ has_flight_context(msgs[j + 1].content)
               /\ airline_search(msgs[j + 1].content, AIRLINE_PATTERNS[p])
               /\ identify_route(msgs[j + 1].content) = identify_route(msgs[i + 1].content)
               /\ FlightDateAt(msgs, j) = FlightDateAt(msgs, i)

\* The messages part (3) of the scenario is about
ConfirmedMention(msgs, i) ==
    /\ MentionsAirline(msgs, i)
    /\ has_flight_context(msgs[i + 1].content)
    /\ InConfirmationWindow(msgs, i)

\* C5 as stated: parts (1), (2), and (3) every airline mention with a
\* confirmation phrase in its window yields exactly one FLIGHT item, CONFIRMED.
C5_Original ==
    \A e \in Ran :
        /\ FlightGateNoItem(e)
        /\ \A i \in 0..(Len(messages[e]) - 1) :
              ConfirmedMention(messages[e], i) =>
                 /\ Cardinality(FlightsFrom(e, i)) = 1
                 /\ \A item \in FlightsFrom(e, i) : item.status = CONFIRMED

\* What the flight gate does guarantee: parts (1), (2), and an airline mention
\* with a flight-context token and a confirmation phrase in its window yields
\* at most one FLIGHT item, always CONFIRMED, and exactly one when one of its
\* airlines was not mentioned with the same route and date by an earlier
\* flight-context message (whether or not that mention became an item).
FlightGateGuarantee ==
    \A e \in Ran :
        /\ FlightGateNoItem(e)
        /\ \A i \in 0..(Len(messages[e]) - 1) :
              ConfirmedMention(messages[e], i) =>
                 /\ Cardinality(FlightsFrom(e, i)) <= 1
                 /\ \A item \in FlightsFrom(e, i) : item.status = CONFIRMED
                 /\ FreshAirline(messages[e], i) => Cardinality(FlightsFrom(e, i)) = 1

\* One confirmed mention yields its item, and another confirmed mention of the
\* same transcript, its key already recorded, yields none.
SuppressedConfirmedMention ==
    \E e \in Ran :
        LET msgs == messages[e]
        IN /\ \E i \in 0..(Len(msgs) - 1) :
                 ConfirmedMention(msgs, i) /\ Cardinality(FlightsFrom(e, i)) = 1
           /\ \E i \in 0..(Len(msgs) - 1) :
                 ConfirmedMention(msgs, i) /\ FlightsFrom(e, i) = {}

\* The TRANSFER items of the lists extract_all(confirmed_only=False) returned
UnfilteredTransfers ==
    UNION {{item \in Range(returned[call[1]][call[2]].items) : item.category = TRANSFER} :
           call \in {c \in Calls : ~returned[c[1]][c[2]].confirmed_only}}

HasIsland(item) == Len(item.title) >= 3
HasTime(item) == \E d \in item.details : d[1] = "time"

\* C2 as stated: every undated TRANSFER item of extract_all(confirmed_only=False)
\* has status CONFIRMED.
C2_Original ==
    \A item \in UnfilteredTransfers :
        item.start_date = NoDate => item.status = CONFIRMED

\* C2 amended: every undated TRANSFER item of extract_all(confirmed_only=False)
\* has status CONFIRMED, or names a resolved island in its title, or carries a
\* time in its details.
C2_UndatedTransferGate ==
    \A item \in UnfilteredTransfers :
        item.start_date = NoDate =>
            item.status = CONFIRMED \/ HasIsland(item) \/ HasTime(item)

\* C2 witness: an undated TENTATIVE transfer with a route was returned, and a
\* bare unconfirmed keyword mention of the same transcript produced no item.
C2_Witness ==
    \E call \in {c \in Calls : ~returned[c[1]][c[2]].confirmed_only} :
        LET e == call[1]
            msgs == messages[e]
        IN /\ \E item \in Range(returned[e][call[2]].items) :
                 /\ item.category = TRANSFER
                 /\ item.start_date = NoDate
                 /\ item.status = TENTATIVE
                 /\ HasIsland(item)
           /\ \E i \in 0..(Len(msgs) - 1) :
                 /\ msgs[i + 1].content = <<"speedboat">>
                 /\ ~InConfirmationWindow(msgs, i)
                 /\ \A item \in Range(detected[e].transfers) : item.source # i

\* The islands (short names) a message mentions, and where each first appears
IslandNames == {normalized(islands[k]) : k \in 1..Len(islands)}

IslandPositions(content, name) ==
    {p \in 1..Len(content) :
        \E k \in 1..Len(islands) :
            normalized(islands[k]) = name /\ island_needle(islands[k]) \in Needles(content[p])}

MentionedIslands(content) == {name \in IslandNames : IslandPositions(content, name) # {}}

\* C6 as stated: for a transfer message that mentions two distinct islands the
\* title is <<Keyword, A, "→", B>> with A the island appearing first in the
\* message text and B the one appearing second.
C6_RouteInOrderOfAppearance ==
    \A e \in Ran :
        \A item \in Range(detected[e].transfers) :
            LET content == messages[e][item.source + 1].content
                named == MentionedIslands(content)
            IN Cardinality(named) = 2 =>
                  \E A \in named, B \in named :
                      /\ MinOf(IslandPositions(content, A)) < MinOf(IslandPositions(content, B))
                      /\ Len(item.title) = 4
                      /\ item.title[2] = A
                      /\ item.title[3] = "→"
                      /\ item.title[4] = B

\* A hotel name as the claim compares it: lower-cased and whitespace-trimmed
NormalName(name) == strip(lower(name))

\* The 0-based indices of the messages of msgs that name the hotel `name`
Naming(msgs, name) ==
    {i \in 0..(Len(msgs) - 1) :
        /\ hotel_name_of(msgs[i + 1].content) # ""
        /\ NormalName(hotel_name_of(msgs[i + 1].content)) = NormalName(name)}

\* C3: the hotel detector emits exactly one HOTEL item per distinct hotel name
\* (compared lower-cased and trimmed), and the item's title, source message,
\* proposer, dates, links and status are those of the lowest-index message
\* naming the hotel.
C3_OneHotelPerNameFirstWins ==
    \A e \in Ran :
        LET msgs == messages[e]
            hotels == detected[e].hotels
        IN /\ \A i \in 0..(Len(msgs) - 1) :
                 hotel_name_of(msgs[i + 1].content) # "" =>
                    Cardinality({k \in 1..Len(hotels) :
                        NormalName(hotels[k].title[1])
                          = NormalName(hotel_name_of(msgs[i + 1].content))}) = 1
           /\ \A k \in 1..Len(hotels) :
                 LET first == MinOf(Naming(msgs, hotels[k].title[1]))
                     content == msgs[first + 1].content
                 IN /\ Naming(msgs, hotels[k].title[1]) # {}
                    /\ hotels[k].category = HOTEL
                    /\ hotels[k].source = first
                    /\ hotels[k].title = <<hotel_name_of(content)>>
                    /\ hotels[k].proposed_by = msgs[first + 1].sender
                    /\ hotels[k].status = check_confirmation(msgs, first)
                    /\ hotels[k].start_date =
                          IF url_stay_dates(content)[1] # NoDate
                          THEN url_stay_dates(content)[1]
                          ELSE extract_date_from_context(msgs, first)
                    /\ hotels[k].end_date = url_stay_dates(content)[2]
                    /\ hotels[k].booking_links = booking_links_of(content)

\* C3 witness: two messages name the same hotel in different case, the later
\* one would be CONFIRMED and dated by its link, and the one item is the
\* TENTATIVE one of the first message.
C3_Witness ==
    \E e \in Ran :
        LET msgs == messages[e]
        IN \E i \in 0..(Len(msgs) - 1), j \in 0..(Len(msgs) - 1) :
              /\ i < j
              /\ hotel_name_of(msgs[i + 1].content) # ""
              /\ hotel_name_of(msgs[i + 1].content) # hotel_name_of(msgs[j + 1].content)
              /\ j \in Naming(msgs, hotel_name_of(msgs[i + 1].content))
              /\ check_confirmation(msgs, i) = TENTATIVE
              /\ check_confirmation(msgs, j) = CONFIRMED
              /\ url_stay_dates(msgs[j + 1].content)[1] # NoDate
              /\ \E item \in Range(detected[e].hotels) :
                    /\ item.source = i
                    /\ item.status = TENTATIVE
                    /\ item.start_date = NoDate

\* The keyword groups of the location pass, and the group of a hotel title
\* (0: no keyword of any group occurs in it)
KeywordGroups ==
    <<{"lipe"}, {"kradan"}, {"libong"}, {"lanta"}, {"bangkok", "sukhumvit", "riverside"}>>

GroupOf(item) ==
    LET hits == {g \in 1..Len(KeywordGroups) :
                    title_keywords(lower(item.title[1])) \cap KeywordGroups[g] # {}}
    IN IF hits = {} THEN 0 ELSE MinOf(hits)

\* The last call on instance e (the one `detected` belongs to)
LastCall(e) == returned[e][Len(returned[e])]

\* C4: a confirmed_only=True result holds at most one HOTEL per keyword group,
\* and the hotel kept for a group is the first CONFIRMED one of the group in
\* detection order; CONFIRMED hotels of no group are all kept.
C4_OneHotelPerLocationFirstDetected ==
    \A e \in Ran :
        LastCall(e).confirmed_only =>
            LET result == {item \in Range(LastCall(e).items) : item.category = HOTEL}
                hotels == detected[e].hotels
            IN /\ \A x \in result, y \in result :
                     x # y => GroupOf(x) = 0 \/ GroupOf(x) # GroupOf(y)
               /\ \A k \in 1..Len(hotels) :
                     hotels[k].status = CONFIRMED =>
                        (hotels[k] \in result <=>
                            \/ GroupOf(hotels[k]) = 0
                            \/ ~\E j \in 1..(k - 1) :
                                   /\ hotels[j].status = CONFIRMED
                                   /\ GroupOf(hotels[j]) = GroupOf(hotels[k]))

\* C4 witness: three CONFIRMED hotels, of the groups lipe, lanta and lipe, gave
\* exactly two hotels, and the lipe hotel kept is dated later than the one dropped.
C4_Witness ==
    \E e \in Ran :
        /\ LastCall(e).confirmed_only
        /\ LET result == {item \in Range(LastCall(e).items) : item.category = HOTEL}
               hotels == detected[e].hotels
           IN /\ Len(hotels) = 3
              /\ \A k \in 1..3 : hotels[k].status = CONFIRMED
              /\ GroupOf(hotels[1]) = 1 /\ GroupOf(hotels[2]) = 4 /\ GroupOf(hotels[3]) = 1
              /\ result = {hotels[1], hotels[2]}
              /\ hotels[3].start_date # NoDate
              /\ hotels[3].start_date < hotels[1].start_date

\* C7 as stated: every returned list is in start-date order with every undated
\* item after every dated item.
C7_SortedUndatedLast ==
    \A call \in Calls :
        LET items == returned[call[1]][call[2]].items
        IN \A i \in 1..Len(items), j \in 1..Len(items) :
              i < j =>
                 \/ items[i].start_date # NoDate /\ items[j].start_date = NoDate
                 \/ items[i].start_date = NoDate /\ items[j].start_date = NoDate
                 \/ /\ items[i].start_date # NoDate
                    /\ items[j].start_date # NoDate
                    /\ items[i].start_date <= items[j].start_date

\* How often an item occurs in a list, and in the groups of a grouping
Occurrences(item, items) == Cardinality({k \in 1..Len(items) : items[k] = item})

GroupedOccurrences(item, grouping) ==
    Cardinality(UNION {{<<g, k>> : k \in {n \in 1..Len(grouping[g][2]) : grouping[g][2][n] = item}} :
                       g \in 1..Len(grouping)})

KeysAscending(grouping) ==
    \A g \in 1..Len(grouping), h \in 1..Len(grouping) :
        g < h => grouping[g][1] < grouping[h][1]

\* C8 as stated: both groupings hold every item of the itinerary exactly once,
\* the items without a start date included, and the date keys ascend.
C8_Original ==
    by_date # <<>> =>
        /\ \A item \in Range(itinerary[1].items) :
              /\ GroupedOccurrences(item, by_date[1]) = Occurrences(item, itinerary[1].items)
              /\ GroupedOccurrences(item, by_category[1]) = Occurrences(item, itinerary[1].items)
        /\ KeysAscending(by_date[1])

\* C8 amended: items_by_category() holds every item exactly once, under its
\* category; items_by_date() holds every item that has a start date exactly
\* once, under its date, and no item without one; the date keys ascend.
C8_GroupingsRoundTrip ==
    by_date # <<>> =>
        /\ \A item \in Range(itinerary[1].items) :
              /\ GroupedOccurrences(item, by_category[1]) = Occurrences(item, itinerary[1].items)
              /\ GroupedOccurrences(item, by_date[1]) =
                    IF item.start_date # NoDate
                    THEN Occurrences(item, itinerary[1].items) ELSE 0
        /\ \A g \in 1..Len(by_date[1]) : \A x \in Range(by_date[1][g][2]) :
              x.start_date = by_date[1][g][1] /\ x \in Range(itinerary[1].items)
        /\ \A g \in 1..Len(by_category[1]) : \A x \in Range(by_category[1][g][2]) :
              x.category = by_category[1][g][1] /\ x \in Range(itinerary[1].items)
        /\ KeysAscending(by_date[1])

\* C8 witness: the groupings were read from an itinerary holding an undated
\* item and dated items that are not in date order.
C8_Witness ==
    /\ by_date # <<>>
    /\ Len(by_date[1]) >= 2
    /\ LET items == itinerary[1].items
       IN /\ \E k \in 1..Len(items) : items[k].start_date = NoDate
          /\ \E i \in 1..Len(items), j \in 1..Len(items) :
                /\ i < j
                /\ items[j].start_date # NoDate
                /\ items[j].start_date < items[i].start_date

\* An item with its id blanked
WithoutId(item) == [item EXCEPT !.id = <<>>]

\* C9: two successive calls of extract_all on one instance with the same
\* confirmed_only return lists of the same length that agree position by
\* position in everything but the id.
C9_RepeatedCallSameContent ==
    \A e \in DOMAIN returned :
        \A c \in 1..(Len(returned[e]) - 1) :
            returned[e][c].confirmed_only = returned[e][c + 1].confirmed_only =>
                /\ Len(returned[e][c].items) = Len(returned[e][c + 1].items)
                /\ \A k \in 1..Len(returned[e][c].items) :
                      WithoutId(returned[e][c].items[k])
                        = WithoutId(returned[e][c + 1].items[k])

\* C9 witness: an instance was called twice with the same confirmed_only, and
\* got a hotel, a flight and a transfer both times, under different ids.
C9_Witness ==
    \E e \in DOMAIN returned :
        /\ Len(returned[e]) = 2
        /\ returned[e][1].confirmed_only = returned[e][2].confirmed_only
        /\ \A cat \in {HOTEL, FLIGHT, TRANSFER} :
              \E item \in Range(returned[e][2].items) : item.category = cat
        /\ \A k \in 1..Len(returned[e][1].items) :
              returned[e][1].items[k].id # returned[e][2].items[k].id

\* C10: the first calls of two fresh instances on the same messages, with the
\* same confirmed_only, return the same items in the same order with the same
\* ids, in whichever order the two calls run.
C10_FreshInstancesAgree ==
    (\A e \in Instances : e \in Ran) =>
        (returned[1][1].confirmed_only = returned[2][1].confirmed_only
            => returned[1][1].items = returned[2][1].items)

\* C10 witness: both instances have run on a transcript that yields items.
C10_Witness ==
    /\ \A e \in Instances : e \in Ran
    /\ returned[1][1].confirmed_only = returned[2][1].confirmed_only
    /\ Len(returned[2][1].items) >= 2

\* The items the call c of instance e created, in the order of creation
CreatedIn(e, c) ==
    returned[e][c].created.hotels \o returned[e][c].created.flights
        \o returned[e][c].created.transfers

\* Where instance e created items: <<call, position in the call>>
CreatedAt(e) ==
    UNION {{<<c, k>> : k \in 1..Len(CreatedIn(e, c))} : c \in 1..Len(returned[e])}

\* No two items created by one instance carry the same id
IdsUnique ==
    \A e \in DOMAIN returned :
        \A a \in CreatedAt(e), b \in CreatedAt(e) :
            a # b => CreatedIn(e, a[1])[a[2]].id # CreatedIn(e, b[1])[b[2]].id

\* A step never lowers an instance's id counter
CounterIncreases ==
    \A e \in DOMAIN item_counter : item_counter'[e] >= item_counter[e]

\* C11: across all items one EntityExtractor instance created, within one
\* extract_all call and across repeated calls, no two carry the same id, and
\* the id counter never decreases.
C11_IdsUniqueCounterIncreases == [](IdsUnique) /\ [][CounterIncreases]_vars

\* C11 witness: an instance created at least two items in each of two calls.
C11_Witness ==
    \E e \in DOMAIN returned :
        /\ Len(returned[e]) = 2
        /\ Len(CreatedIn(e, 1)) >= 2
        /\ Len(CreatedIn(e, 2)) >= 2
        /\ item_counter[e] >= 4

\* The transcript with every message flagged is-system removed
Purged(t) == SelectSeq(t, LAMBDA m : ~m.is_system)

\* The position in the transcript t (0-based) of the message that has index i
\* among the non-system messages
RawIndex(t, i) ==
    CHOOSE r \in 0..(Len(t) - 1) :
        /\ ~t[r + 1].is_system
        /\ Cardinality({q \in 0..(r - 1) : ~t[q + 1].is_system}) = i

\* C12: messages flagged is-system have no influence on extraction. No item
\* has a system message as its source; an item is CONFIRMED exactly when a
\* confirmation phrase lies in its window counted over the non-system messages;
\* and the first call of an instance returns what extract_all returns on the
\* transcript with the system messages removed.
C12_SystemMessagesIgnored ==
    \A e \in Ran :
        /\ \A item \in Range(CreatedIn(e, 1)) :
              /\ item.source < Len(messages[e])
              /\ ~messages[e][item.source + 1].is_system
              /\ messages[e][item.source + 1] = Purged(transcript)[item.source + 1]
              /\ item.category = HOTEL =>
                    (item.status = CONFIRMED
                        <=> InConfirmationWindow(Purged(transcript), item.source))
        /\ returned[e][1].items
             = extract_all(Purged(transcript), NoSeen, 0, returned[e][1].confirmed_only).items

\* C12 witness: a hotel is CONFIRMED by a phrase that lies outside its window
\* when the system messages of the transcript are counted, and inside it when
\* they are not.
C12_Witness ==
    \E e \in Ran :
        \E item \in Range(CreatedIn(e, 1)) :
            /\ item.category = HOTEL
            /\ item.status = CONFIRMED
            /\ \E m \in Range(transcript) : m.is_system
            /\ ~InConfirmationWindow(transcript, RawIndex(transcript, item.source))

\* C13: extract_all(confirmed_only=True) returns only CONFIRMED items;
\* extract_all(confirmed_only=False) returns every item the three detectors
\* created, each once: neither the status filter nor the location pass ran.
C13_ConfirmedOnlyFilter ==
    \A call \in Calls :
        LET rec == returned[call[1]][call[2]]
            created == CreatedIn(call[1], call[2])
        IN IF rec.confirmed_only
           THEN \A item \in Range(rec.items) : item.status = CONFIRMED
           ELSE /\ Len(rec.items) = Len(created)
                /\ Range(rec.items) = Range(created)

\* C13 witness: a confirmed_only=False call returned two CONFIRMED hotels of
\* one location group, and a confirmed_only=True call of the same instance
\* returned fewer items than it created.
C13_Witness ==
    \E e \in DOMAIN returned :
        /\ Len(returned[e]) = 2
        /\ ~returned[e][1].confirmed_only
        /\ returned[e][2].confirmed_only
        /\ \E x \in Range(returned[e][1].items), y \in Range(returned[e][1].items) :
              /\ x # y
              /\ x.status = CONFIRMED /\ y.status = CONFIRMED
              /\ GroupOf(x) # 0 /\ GroupOf(x) = GroupOf(y)
        /\ Len(returned[e][2].items) < Len(CreatedIn(e, 2))

\* The start dates the items of a list carry
StartDates(items) ==
    {items[k].start_date : k \in 1..Len(items)} \ {NoDate}

\* The itinerary it is the one build_itinerary makes of the item list items
BuiltFrom(it, items) ==
    /\ it.items = items
    /\ IF StartDates(items) # {}
       THEN /\ \A d \in StartDates(items) : it.start_date <= d /\ d <= it.end_date
            /\ it.start_date \in StartDates(items)
            /\ it.end_date \in StartDates(items)
       ELSE /\ it.start_date = 20260314
            /\ it.end_date = 20260328

\* A step of build_itinerary on instance e: it appends a call and leaves an
\* itinerary
BuildStep(e) ==
    /\ e \in DOMAIN returned
    /\ Len(returned'[e]) = Len(returned[e]) + 1
    /\ itinerary' # <<>>
    /\ itinerary = <<>> \/ itinerary' # itinerary

DateOrEmpty(d) == d = NoDate \/ (d >= 10101 /\ d <= 99991231)

\* An item the detectors may return: every field resolved, no exception value
WellFormed(item) ==
    /\ item.category \in {HOTEL, FLIGHT, TRANSFER}
    /\ item.status \in {CONFIRMED, TENTATIVE}
    /\ item.title # <<>>
    /\ DateOrEmpty(item.start_date)
    /\ DateOrEmpty(item.end_date)
    /\ item.source \in 0..(Len(transcript) - 1)

\* A range build_itinerary may return: two calendar dates
ProperRange(range) ==
    /\ DateOrEmpty(range[1]) /\ range[1] # NoDate
    /\ DateOrEmpty(range[2]) /\ range[2] # NoDate

\* C15: extraction never ends in an error for data-quality reasons. On every
\* message sequence an EntityExtractor is constructed on, extract_all and
\* build_itinerary return a result, for either value of confirmed_only; and
\* every item a call created has each field resolved: a status of CONFIRMED or
\* TENTATIVE, dates empty or calendar dates, never the value of an exception.
C15_NeverRaises ==
    /\ \A e \in DOMAIN messages, confirmed_only \in BOOLEAN :
          returned[e] = <<>> =>
              \E r \in {extract_all(messages[e], seen[e], item_counter[e], confirmed_only)} :
                  /\ \A k \in 1..Len(r.items) : WellFormed(r.items[k])
                  /\ ProperRange(date_range(r.items))
    /\ \A call \in Calls :
          \A item \in Range(CreatedIn(call[1], call[2])) : WellFormed(item)
    /\ (data = <<>> /\ itinerary # <<>>) =>
          ProperRange(<<itinerary[1].start_date, itinerary[1].end_date>>)

\* C15 witness: build_itinerary returned on a transcript whose link has a
\* malformed checkin, with no date and no confirmation near it: the hotel is
\* TENTATIVE and undated, and the itinerary has the fallback range.
C15_Witness ==
    /\ data = <<>>
    /\ itinerary # <<>>
    /\ itinerary[1].start_date = 20260314
    /\ \E m \in Range(transcript) :
          \E k \in 1..Len(m.content) : m.content[k] = U_LantaInn
    /\ \E item \in Range(itinerary[1].items) :
          /\ item.category = HOTEL
          /\ item.status = TENTATIVE
          /\ item.start_date = NoDate

\* The checkin parameter of the link is present and date.fromisoformat raises on it
BadCheckin(url) ==
    /\ parse_qs(url, "checkin") # ""
    /\ fromisoformat(parse_qs(url, "checkin")) = ValueError

\* The message has a booking link with a bad checkin, and no link of it has a
\* checkin that parses
OnlyBadCheckin(content) ==
    /\ \E k \in 1..Len(content) :
          BOOKING_URL_PATTERN(content[k]) /\ BadCheckin(content[k])
    /\ \A k \in 1..Len(content) :
          BOOKING_URL_PATTERN(content[k]) =>
              (BadCheckin(content[k]) \/ parse_qs(content[k], "checkin") = "")

\* C16: a booking link whose checkin fails to parse gives no date. A hotel or
\* flight item created from a message whose links have no parseable checkin
\* has the start date contextual inference finds around the message (a hotel
\* takes no end date from the link either), and the message is not lost: the
\* hotel its link names is among the items the call created.
C16_BadCheckinFallsThrough ==
    \A call \in Calls :
        /\ \A item \in Range(CreatedIn(call[1], call[2])) :
              (/\ item.category \in {HOTEL, FLIGHT}
               /\ OnlyBadCheckin(messages[call[1]][item.source + 1].content)) =>
                  /\ item.start_date
                       = extract_date_from_context(messages[call[1]], item.source)
                  /\ item.category = HOTEL => item.end_date = NoDate
        /\ \A i \in 0..(Len(messages[call[1]]) - 1) :
              OnlyBadCheckin(messages[call[1]][i + 1].content) =>
                  \E item \in Range(CreatedIn(call[1], call[2])) :
                      /\ item.category = HOTEL
                      /\ item.source <= i
                      /\ hotel_key(item.title[1])
                           = hotel_key(hotel_name_of(messages[call[1]][i + 1].content))

\* C16 witness: one message with a bad checkin gave a hotel and a flight, both
\* dated 16 March by a message near it, the hotel without an end date.
C16_Witness ==
    \E call \in Calls :
        \E h \in Range(CreatedIn(call[1], call[2])), f \in Range(CreatedIn(call[1], call[2])) :
            /\ h.category = HOTEL /\ f.category = FLIGHT
            /\ h.source = f.source
            /\ OnlyBadCheckin(messages[call[1]][h.source + 1].content)
            /\ h.start_date = 20260316 /\ h.end_date = NoDate
            /\ f.start_date = 20260316

\* The items of a list that are not hotels, in the order of the list
NonHotels(items) == SelectSeq(items, LAMBDA item : item.category # HOTEL)

\* The hotels of a list whose title holds no location keyword, in list order
UnlocatedHotels(items) ==
    SelectSeq(items, LAMBDA item : /\ item.category = HOTEL
                                   /\ title_keywords(lower(item.title[1])) = {})

\* The list the location-dedup pass is given in call c of instance e
DedupeInput(e, c) == confirmed_items(CreatedIn(e, c))

\* C17: the location-dedup pass leaves non-hotel items untouched. Of the list
\* it is given, every FLIGHT and TRANSFER item is in its output, unchanged and
\* in the same relative order, every hotel whose title matches no location
\* keyword is kept, and the pass adds nothing; the non-hotel items are all
\* among the items the call returns.
C17_DedupeLeavesNonHotels ==
    \A call \in Calls :
        returned[call[1]][call[2]].confirmed_only =>
            /\ NonHotels(dedupe_by_location(DedupeInput(call[1], call[2])))
                 = NonHotels(DedupeInput(call[1], call[2]))
            /\ UnlocatedHotels(dedupe_by_location(DedupeInput(call[1], call[2])))
                 = UnlocatedHotels(DedupeInput(call[1], call[2]))
            /\ Range(dedupe_by_location(DedupeInput(call[1], call[2])))
                 \subseteq Range(DedupeInput(call[1], call[2]))
            /\ Range(NonHotels(DedupeInput(call[1], call[2])))
                 \subseteq Range(returned[call[1]][call[2]].items)

\* C17 witness: the pass dropped a second Koh Lipe hotel from a list that also
\* held a flight and a hotel with no location keyword, and kept those two.
C17_Witness ==
    \E call \in Calls :
        /\ returned[call[1]][call[2]].confirmed_only
        /\ Len(returned[call[1]][call[2]].items) < Len(DedupeInput(call[1], call[2]))
        /\ \E item \in Range(returned[call[1]][call[2]].items) : item.category = FLIGHT
        /\ \E item \in Range(returned[call[1]][call[2]].items) :
              item.category = HOTEL /\ item.title = <<"Sea View">>

\* Message i names a transfer keyword, has no confirmation phrase in its
\* window, names no island and holds no time
BareTransferMention(msgs, i) ==
    /\ \E q \in 1..Len(TRANSFER_KEYWORDS) : Contains(msgs[i + 1].content, TRANSFER_KEYWORDS[q])
    /\ ~InConfirmationWindow(msgs, i)
    /\ MentionedIslands(msgs[i + 1].content) = {}
    /\ \A k \in 1..Len(msgs[i + 1].content) : time_pattern(msgs[i + 1].content[k]) = <<>>

\* C18: every TRANSFER item extract_all(confirmed_only=False) returns has
\* status CONFIRMED, or an island in its title, or a time in its details; a
\* transfer-keyword message that is unconfirmed and has neither route nor time
\* is the source of no item.
C18_TransferInclusionGate ==
    /\ \A item \in UnfilteredTransfers :
          item.status = CONFIRMED \/ HasIsland(item) \/ HasTime(item)
    /\ \A call \in Calls :
          ~returned[call[1]][call[2]].confirmed_only =>
              \A i \in 0..(Len(messages[call[1]]) - 1) :
                  BareTransferMention(messages[call[1]], i) =>
                      \A item \in Range(returned[call[1]][call[2]].items) :
                          item.category = TRANSFER => item.source # i

\* C18 witness: an unconfirmed transfer with a time and no island was
\* returned, and a bare keyword mention of the same transcript gave no item.
C18_Witness ==
    \E call \in Calls :
        /\ ~returned[call[1]][call[2]].confirmed_only
        /\ \E item \in Range(returned[call[1]][call[2]].items) :
              /\ item.category = TRANSFER
              /\ item.status = TENTATIVE
              /\ HasTime(item) /\ ~HasIsland(item)
        /\ \E i \in 0..(Len(messages[call[1]]) - 1) :
              BareTransferMention(messages[call[1]], i)

\* The indexes (0-based) of the messages that hold a confirmation phrase
ConfirmationsAt(msgs) == {j \in 0..(Len(msgs) - 1) : HasConfirmation(msgs[j + 1].content)}

\* C19: confirmation resolution for the message at index i of the non-system
\* messages gives CONFIRMED if and only if some message with index j,
\* max(0, i-3) <= j <= i+7 and j within the list, message i included, holds a
\* confirmation phrase; otherwise TENTATIVE. Every item a call creates has the
\* status so resolved for its source message.
C19_ConfirmationWindow ==
    \A call \in Calls :
        \A item \in Range(CreatedIn(call[1], call[2])) :
            /\ item.status \in {CONFIRMED, TENTATIVE}
            /\ item.status = CONFIRMED
                 <=> \E j \in ConfirmationsAt(messages[call[1]]) :
                        /\ Max(0, item.source - 3) <= j
                        /\ j <= item.source + 7

\* An item is TENTATIVE with the only phrase of the transcript 4 messages
\* before its source
JustBeforeWindow ==
    \E call \in Calls :
        \E item \in Range(CreatedIn(call[1], call[2])) :
            /\ item.status = TENTATIVE
            /\ ConfirmationsAt(messages[call[1]]) = {item.source - 4}

\* C19 witness: an item is CONFIRMED by a phrase exactly 7 messages after its
\* source, the only phrase of the transcript.
C19_Witness ==
    \E call \in Calls :
        \E item \in Range(CreatedIn(call[1], call[2])) :
            /\ item.status = CONFIRMED
            /\ ConfirmationsAt(messages[call[1]]) = {item.source + 7}

\* The list in reverse order: the message at distance d before an index comes
\* to lie at distance d after it
Reverse(sq) == [k \in 1..Len(sq) |-> sq[Len(sq) + 1 - k]]

\* The indexes (0-based) of the messages that hold a date
DatesAt(msgs) == {j \in 0..(Len(msgs) - 1) : date_of_message(msgs[j + 1].content) # NoDate}

\* C20: contextual date inference scans a symmetric window around the message
\* index: a message at distance d before the index is scanned if and only if
\* a message at distance d after it is scanned. For a hotel whose message has
\* no link, in a transcript with one dated message, the hotel gets that date
\* exactly when inference around the same message of the reversed transcript,
\* where the dated message lies as far on the other side, finds it.
C20_SymmetricDateWindow ==
    \A call \in Calls :
        \A item \in Range(CreatedIn(call[1], call[2])) :
            (/\ item.category = HOTEL
             /\ booking_urls(messages[call[1]][item.source + 1].content) = <<>>
             /\ Cardinality(DatesAt(messages[call[1]])) = 1) =>
                (item.start_date # NoDate
                    <=> extract_date_from_context(Reverse(messages[call[1]]),
                            Len(messages[call[1]]) - 1 - item.source) # NoDate)

\* What the scan does give: a hotel whose message has no link is dated exactly
\* when a dated message lies 5 before to 4 after its source.
DateWindowGuarantee ==
    \A call \in Calls :
        \A item \in Range(CreatedIn(call[1], call[2])) :
            (/\ item.category = HOTEL
             /\ booking_urls(messages[call[1]][item.source + 1].content) = <<>>) =>
                (item.start_date # NoDate
                    <=> \E j \in DatesAt(messages[call[1]]) :
                           item.source - 5 <= j /\ j <= item.source + 4)

\* The date the first day-month phrase of a message parses to, NoDate if the
\* message has no phrase or its first phrase does not parse
FirstPhraseDate(content) ==
    IF \E k \in 1..Len(content) : DATE_PATTERN(content[k]) # <<>>
    THEN LET k == MinOf({q \in 1..Len(content) : DATE_PATTERN(content[q]) # <<>>})
             g == DATE_PATTERN(content[k])
         IN dateparser_parse(g[1], g[2], IF g[3] = 0 THEN 2026 ELSE g[3])
    ELSE NoDate

\* The indexes (0-based) the scan around index i covers
ScannedAround(msgs, i) ==
    {j \in 0..(Len(msgs) - 1) : i - 5 <= j /\ j <= i + 4}

\* The item takes its start date from contextual inference: a transfer, or a
\* hotel whose message has no link with a checkin that parses
DatedByContext(msgs, item) ==
    \/ item.category = TRANSFER
    \/ /\ item.category = HOTEL
       /\ \A k \in 1..Len(msgs[item.source + 1].content) :
             BOOKING_URL_PATTERN(msgs[item.source + 1].content[k]) =>
                 fromisoformat(parse_qs(msgs[item.source + 1].content[k], "checkin")) = ValueError

\* C21: contextual date inference returns the date of the lowest-index message
\* of the window whose first day-month phrase parses, and no date if and only
\* if no message of the window yields one; a date in an earlier message of the
\* window takes precedence over a date in the message being resolved.
C21_FirstDateInWindow ==
    \A call \in Calls :
        \A item \in Range(CreatedIn(call[1], call[2])) :
            DatedByContext(messages[call[1]], item) =>
                /\ item.start_date = NoDate
                     <=> \A j \in ScannedAround(messages[call[1]], item.source) :
                            FirstPhraseDate(messages[call[1]][j + 1].content) = NoDate
                /\ \A j \in ScannedAround(messages[call[1]], item.source) :
                      (/\ FirstPhraseDate(messages[call[1]][j + 1].content) # NoDate
                       /\ \A q \in ScannedAround(messages[call[1]], item.source) :
                             q < j => FirstPhraseDate(messages[call[1]][q + 1].content) = NoDate)
                          => item.start_date = FirstPhraseDate(messages[call[1]][j + 1].content)

\* C21 witness: a hotel whose own message says 20th March 2026 is dated 14
\* March by an earlier message of its window, and a message just before that
\* one, whose first phrase (31 Feb) does not parse, gave nothing.
C21_Witness ==
    \E call \in Calls :
        \E item \in Range(CreatedIn(call[1], call[2])) :
            /\ item.category = HOTEL
            /\ item.source = 2
            /\ FirstPhraseDate(messages[call[1]][item.source + 1].content) = 20260320
            /\ messages[call[1]][1].content = <<"31 Feb", "14 Mar">>
            /\ messages[call[1]][2].content = <<"16th March", "14 Mar">>
            /\ item.start_date = 20260316

\* The positions in the creation list of call c of instance e of the items
\* of one category whose source is message i
CreatedFrom(e, c, category, i) ==
    {k \in 1..Len(CreatedIn(e, c)) :
        CreatedIn(e, c)[k].category = category /\ CreatedIn(e, c)[k].source = i}

\* The first airline of the table, in table order, whose pattern matches message i
FirstAirline(msgs, i) ==
    AIRLINE_PATTERNS[MinOf({p \in 1..Len(AIRLINE_PATTERNS) :
                               airline_search(msgs[i + 1].content, AIRLINE_PATTERNS[p])})]

\* The flight detector creates at most one FLIGHT item per message
OneFlightPerMessage ==
    \A call \in Calls :
        \A i \in 0..(Len(messages[call[1]]) - 1) :
            Cardinality(CreatedFrom(call[1], call[2], FLIGHT, i)) <= 1

\* C22: the flight detector creates at most one FLIGHT item per message, and
\* the airline of the item is the first pattern of the airline table that
\* matches the message: a later pattern never produces the item when an
\* earlier one matches.
C22_FirstAirlineWins ==
    \A call \in Calls :
        \A i \in 0..(Len(messages[call[1]]) - 1) :
            /\ Cardinality(CreatedFrom(call[1], call[2], FLIGHT, i)) <= 1
            /\ \A k \in CreatedFrom(call[1], call[2], FLIGHT, i) :
                  CreatedIn(call[1], call[2])[k].title[1] = FirstAirline(messages[call[1]], i)

\* The transfer keywords message i holds
KeywordsOf(msgs, i) ==
    {q \in 1..Len(TRANSFER_KEYWORDS) : Contains(msgs[i + 1].content, TRANSFER_KEYWORDS[q])}

\* C23: the transfer detector creates at most one TRANSFER item per message,
\* even when the message holds several transfer keywords.
C23_OneTransferPerMessage ==
    \A call \in Calls :
        \A i \in 0..(Len(messages[call[1]]) - 1) :
            Cardinality(CreatedFrom(call[1], call[2], TRANSFER, i)) <= 1

\* C23 witness: a message holding two transfer keywords, neither used by an
\* earlier item, is the source of exactly one TRANSFER item.
C23_Witness ==
    \E call \in Calls :
        \E i \in 0..(Len(messages[call[1]]) - 1) :
            /\ Cardinality(KeywordsOf(messages[call[1]], i)) = 2
            /\ Cardinality(CreatedFrom(call[1], call[2], TRANSFER, i)) = 1
            /\ \A k \in 1..Len(CreatedIn(call[1], call[2])) :
                  CreatedIn(call[1], call[2])[k].category = TRANSFER
                      => CreatedIn(call[1], call[2])[k].source >= i

\* The dedup triple a FLIGHT item stands for: airline, route (<<>> when the
\* title carries none) and date (NoDate when it has none)
FlightTriple(item) ==
    <<item.title[1],
      IF item.title = <<item.title[1], "Flight">> THEN <<>>
      ELSE SubSeq(item.title, 2, Len(item.title)),
      item.start_date>>

\* C24: within one extract_all call no two FLIGHT items share the same
\* (airline, inferred route, date) triple, a missing route and a missing date
\* each counting as one value.
C24_FlightTripleUnique ==
    \A call \in Calls :
        \A a \in 1..Len(CreatedIn(call[1], call[2])), b \in 1..Len(CreatedIn(call[1], call[2])) :
            (/\ a # b
             /\ CreatedIn(call[1], call[2])[a].category = FLIGHT
             /\ CreatedIn(call[1], call[2])[b].category = FLIGHT) =>
                FlightTriple(CreatedIn(call[1], call[2])[a])
                    # FlightTriple(CreatedIn(call[1], call[2])[b])

\* C24 witness: three messages name Etihad in a flight context with the same
\* date; two have the route LHR-BKK and one has none, and the call created two
\* FLIGHT items, one per triple.
C24_Witness ==
    \E call \in Calls :
        /\ Len(messages[call[1]]) = 3
        /\ \A i \in 0..2 :
              /\ airline_search(messages[call[1]][i + 1].content, "Etihad")
              /\ has_flight_context(messages[call[1]][i + 1].content)
              /\ FlightDateAt(messages[call[1]], i) = 20260314
        /\ Cardinality({i \in 0..2 : identify_route(messages[call[1]][i + 1].content) # <<>>}) = 2
        /\ Len(returned[call[1]][call[2]].created.flights) = 2

\* The positions in AIRLINE_PATTERNS of the patterns that match message i
MatchingAirlines(msgs, i) ==
    {p \in 1..Len(AIRLINE_PATTERNS) : airline_search(msgs[i + 1].content, AIRLINE_PATTERNS[p])}

\* C25: a flight detection is dropped as a duplicate only if an earlier FLIGHT
\* item with the same airline, route and date was emitted in this run; a
\* mention the inclusion gate discarded never suppresses a later CONFIRMED
\* mention with the same key. So for every airline a confirmed flight-context
\* message names, the message is the source of an item for that airline or
\* for one earlier in the table, or an earlier item of the call carries the
\* triple.
C25_DuplicateOnlyAfterEmitted ==
    \A call \in Calls :
        \A i \in 0..(Len(messages[call[1]]) - 1) :
            ConfirmedMention(messages[call[1]], i) =>
                \A p \in MatchingAirlines(messages[call[1]], i) :
                    \E item \in Range(returned[call[1]][call[2]].created.flights) :
                        \/ /\ item.source = i
                           /\ \E q \in 1..p : item.title[1] = AIRLINE_PATTERNS[q]
                        \/ /\ item.source < i
                           /\ FlightTriple(item)
                                = <<AIRLINE_PATTERNS[p],
                                    identify_route(messages[call[1]][i + 1].content),
                                    FlightDateAt(messages[call[1]], i)>>

\* What the dedup of transfers compares for a TRANSFER item: keyword, set of
\* islands resolved from the source message, date
TransferTriple(msgs, item) ==
    <<item.title[1], MentionedIslands(msgs[item.source + 1].content), item.start_date>>

\* C26: within one extract_all call no two TRANSFER items share the same
\* keyword, the same set of resolved islands and the same date; the route's
\* direction plays no part, so a second message with the same keyword and
\* date and the reversed route gives no second item.
C26_TransferTripleUnique ==
    \A call \in Calls :
        \A a \in 1..Len(CreatedIn(call[1], call[2])), b \in 1..Len(CreatedIn(call[1], call[2])) :
            (/\ a # b
             /\ CreatedIn(call[1], call[2])[a].category = TRANSFER
             /\ CreatedIn(call[1], call[2])[b].category = TRANSFER) =>
                TransferTriple(messages[call[1]], CreatedIn(call[1], call[2])[a])
                    # TransferTriple(messages[call[1]], CreatedIn(call[1], call[2])[b])

\* C26 witness: a ferry message naming Lipe then Lanta and a later one naming
\* Lanta then Lipe, with the same inferred date, gave one TRANSFER item.
C26_Witness ==
    \E call \in Calls :
        \E i \in 0..(Len(messages[call[1]]) - 1), j \in 0..(Len(messages[call[1]]) - 1) :
            /\ i < j
            /\ messages[call[1]][i + 1].content = <<"ferry", "Koh Lipe", "Koh Lanta">>
            /\ messages[call[1]][j + 1].content = <<"ferry", "Koh Lanta", "Koh Lipe">>
            /\ extract_date_from_context(messages[call[1]], i)
                 = extract_date_from_context(messages[call[1]], j)
            /\ Cardinality(CreatedFrom(call[1], call[2], TRANSFER, i)) = 1
            /\ CreatedFrom(call[1], call[2], TRANSFER, j) = {}

\* The name the "Check out <name> on Booking.com" phrase of a message gives,
\* "" if the message has no such phrase
PhraseName(content) ==
    IF \E k \in 1..Len(content) : checkout_pattern(content[k]) # ""
    THEN strip(checkout_pattern(content[MinOf({k \in 1..Len(content) :
                                                 checkout_pattern(content[k]) # ""})]))
    ELSE ""

\* The names the paths of the booking links of a message give, in link order
LinkNames(content) ==
    SelectSeq([k \in 1..Len(content) |->
                  IF BOOKING_URL_PATTERN(content[k])
                  THEN replace_title(url_path_segment(content[k])) ELSE ""],
              LAMBDA name : name # "")

\* C27: hotel naming follows a fixed priority. The title of a HOTEL item is
\* the name of the phrase of its message when the message has one, links or
\* not, and the name of the path of its first naming link only when there is
\* no phrase name; a message from which neither gives a name is the source of
\* no HOTEL item, and the seen-hotel set holds the keys of the items only.
C27_HotelNamePriority ==
    \A call \in Calls :
        /\ \A item \in Range(returned[call[1]][call[2]].created.hotels) :
              /\ PhraseName(messages[call[1]][item.source + 1].content) # ""
                    => item.title = <<PhraseName(messages[call[1]][item.source + 1].content)>>
              /\ PhraseName(messages[call[1]][item.source + 1].content) = ""
                    => /\ LinkNames(messages[call[1]][item.source + 1].content) # <<>>
                       /\ item.title = <<LinkNames(messages[call[1]][item.source + 1].content)[1]>>
        /\ \A i \in 0..(Len(messages[call[1]]) - 1) :
              (/\ PhraseName(messages[call[1]][i + 1].content) = ""
               /\ LinkNames(messages[call[1]][i + 1].content) = <<>>)
                  => CreatedFrom(call[1], call[2], HOTEL, i) = {}
        /\ call[2] = Len(returned[call[1]]) =>
              seen[call[1]].hotels
                = {hotel_key(item.title[1]) :
                      item \in Range(returned[call[1]][call[2]].created.hotels)}

\* C27 witness: a message with the Lipe Resort phrase and the Lipe Beach link
\* gave the item Lipe Resort, a message with a search link and the Sea View link
\* gave Sea View, and a message with the search link alone gave nothing.
C27_Witness ==
    \E call \in Calls :
        /\ \E item \in Range(returned[call[1]][call[2]].created.hotels) :
              /\ messages[call[1]][item.source + 1].content = <<P_LipeResort, U_LipeBeach>>
              /\ item.title = <<"Lipe Resort">>
        /\ \E item \in Range(returned[call[1]][call[2]].created.hotels) :
              /\ messages[call[1]][item.source + 1].content = <<U_Search, U_SeaView>>
              /\ item.title = <<"Sea View">>
        /\ \E i \in 0..(Len(messages[call[1]]) - 1) :
              messages[call[1]][i + 1].content = <<U_Search>>
        /\ Len(returned[call[1]][call[2]].created.hotels) = 2

\* The positions in a message of the booking links whose checkin parses
LinksWithCheckin(content) ==
    {k \in 1..Len(content) :
        /\ BOOKING_URL_PATTERN(content[k])
        /\ fromisoformat(parse_qs(content[k], "checkin")) # ValueError}

\* The checkout of a link as a date, NoDate when absent or unparseable
CheckoutOf(url) ==
    IF fromisoformat(parse_qs(url, "checkout")) = ValueError THEN NoDate
    ELSE fromisoformat(parse_qs(url, "checkout"))

\* C28: hotel stay dates prefer the booking link. When a link of the message
\* has a checkin that parses, the start date of the item is that checkin (of
\* the last such link) and the end date is that link's checkout, whatever the
\* messages around say; contextual inference gives the start date only when no
\* link yields a checkin, and the item then has no end date. Every HOTEL item
\* with an end date has a start date.
C28_HotelDatesPreferLink ==
    \A call \in Calls :
        \A item \in Range(returned[call[1]][call[2]].created.hotels) :
            /\ LinksWithCheckin(messages[call[1]][item.source + 1].content) # {} =>
                  \E k \in LinksWithCheckin(messages[call[1]][item.source + 1].content) :
                      /\ \A q \in LinksWithCheckin(messages[call[1]][item.source + 1].content) : q <= k
                      /\ item.start_date
                           = fromisoformat(parse_qs(messages[call[1]][item.source + 1].content[k], "checkin"))
                      /\ item.end_date = CheckoutOf(messages[call[1]][item.source + 1].content[k])
            /\ LinksWithCheckin(messages[call[1]][item.source + 1].content) = {} =>
                  /\ item.start_date = extract_date_from_context(messages[call[1]], item.source)
                  /\ item.end_date = NoDate
            /\ item.end_date # NoDate => item.start_date # NoDate

\* C28 witness: a hotel whose link says 14 to 16 March has those dates although
\* the message next to it says 16th March, and a hotel whose link has a
\* checkout but a checkin that does not parse starts on 16 March, the date of
\* that message, and has no end date.
C28_Witness ==
    \E call \in Calls :
        /\ \E item \in Range(returned[call[1]][call[2]].created.hotels) :
              /\ item.start_date = 20260314 /\ item.end_date = 20260316
              /\ extract_date_from_context(messages[call[1]], item.source) = 20260316
        /\ \E item \in Range(returned[call[1]][call[2]].created.hotels) :
              /\ messages[call[1]][item.source + 1].content = <<U_LantaInn>>
              /\ item.start_date = 20260316 /\ item.end_date = NoDate

\* C29: the date range of an itinerary build_itinerary returned covers all of
\* its items: the start date of every dated item lies between the itinerary's
\* start and end dates, and the end date of every item that has one is not
\* after the itinerary's end date.
C29_RangeCoversItems ==
    (data = <<>> /\ itinerary # <<>>) =>
        \A item \in Range(itinerary[1].items) :
            /\ item.start_date # NoDate =>
                  /\ itinerary[1].start_date <= item.start_date
                  /\ item.start_date <= itinerary[1].end_date
            /\ item.end_date # NoDate => item.end_date <= itinerary[1].end_date

\* The place of a category in the order the detectors run
CategoryRank(category) ==
    CASE category = HOTEL -> 1
      [] category = FLIGHT -> 2
      [] category = TRANSFER -> 3

\* Two items tie in the sort: equal start dates, or both undated
Tied(a, b) == a.start_date = b.start_date

\* C30: ordering among ties is fixed by detection order. Among items of an
\* extract_all result with equal start dates, and among its undated items,
\* every HOTEL precedes every FLIGHT, which precedes every TRANSFER, items of
\* one category keep the order of their source messages, and the numbers N of
\* the ids item-N increase.
C30_TiesInDetectionOrder ==
    \A call \in Calls :
        \A a \in 1..Len(returned[call[1]][call[2]].items), b \in 1..Len(returned[call[1]][call[2]].items) :
            (/\ a < b
             /\ Tied(returned[call[1]][call[2]].items[a], returned[call[1]][call[2]].items[b])) =>
                /\ CategoryRank(returned[call[1]][call[2]].items[a].category)
                     <= CategoryRank(returned[call[1]][call[2]].items[b].category)
                /\ returned[call[1]][call[2]].items[a].category
                     = returned[call[1]][call[2]].items[b].category
                       => returned[call[1]][call[2]].items[a].source
                            < returned[call[1]][call[2]].items[b].source
                /\ returned[call[1]][call[2]].items[a].id[2]
                     < returned[call[1]][call[2]].items[b].id[2]

\* C30 witness: a call returned a hotel, a flight and a transfer with one
\* start date, in that order, found in messages that come in the opposite
\* order.
C30_Witness ==
    \E call \in Calls :
        /\ Len(returned[call[1]][call[2]].items) = 3
        /\ returned[call[1]][call[2]].items[1].category = HOTEL
        /\ returned[call[1]][call[2]].items[2].category = FLIGHT
        /\ returned[call[1]][call[2]].items[3].category = TRANSFER
        /\ returned[call[1]][call[2]].items[1].start_date # NoDate
        /\ Tied(returned[call[1]][call[2]].items[1], returned[call[1]][call[2]].items[2])
        /\ Tied(returned[call[1]][call[2]].items[2], returned[call[1]][call[2]].items[3])
        /\ returned[call[1]][call[2]].items[1].source > returned[call[1]][call[2]].items[2].source
        /\ returned[call[1]][call[2]].items[2].source > returned[call[1]][call[2]].items[3].source

====
